---------------------------- MODULE Spec2Model ----------------------------
(***************************************************************************)
(* A model of the CountThisInThat merge-join counter of benbiohelpers:    *)
(* ThisInThatCounter (Counter.py), CounterOutputDataHandler and           *)
(* OutputDataWriter (CounterOutputDataHandler.py), the output data        *)
(* stratifiers (OutputDataStratifiers.py) and the two input records       *)
(* (InputDataStructures.py).                                              *)
(*                                                                         *)
(* Conventions.                                                           *)
(*  - Chromosome names are modelled by the integers 1, 2, ... in the      *)
(*    order of their names ("chr1" < "chr2").                             *)
(*  - Positions are Python floats that are integers or half-integers.     *)
(*    Every position of the model (position, startPos, endPos, center,    *)
(*    the padding radius inside a comparison, relative positions) is      *)
(*    held in HALF-BASES, i.e. as twice the Python value, so that         *)
(*    half-integers are integers.  The raw columns of an input line       *)
(*    (start, end) are held as written in the file.                       *)
(*  - Python's None feature is the record whose field line is 0.          *)
(***************************************************************************)
EXTENDS Integers, Sequences, FiniteSets, TLC

(***************************************************************************)
(* Bounds of the model.                                                    *)
(***************************************************************************)
MaxLines == 2      \* at most this many lines in each input file
MaxPos == 2        \* raw start columns range over 0..MaxPos

MaxChromosome == 2
Chromosomes == 1..MaxChromosome
Strands == {"+", "-"}

ENCOMPASSED_DATA == 1
ENCOMPASSING_DATA == 2

(***************************************************************************)
(* Table keys.  Every dictionary key of the output data structure is one  *)
(* record shape, so that keys of different Python types can be compared.  *)
(***************************************************************************)
Key(t, a, b, c, d) == [t |-> t, a |-> a, b |-> b, c |-> c, d |-> d]
None == Key("None", 0, 0, 0, 0)
BoolKey(b) == Key("bool", IF b THEN 1 ELSE 0, 0, 0, 0)
NumKey(x) == Key("num", x, 0, 0, 0)          \* x in half-bases
StrandNum(s) == IF s = "+" THEN 1 ELSE 0
StrKey(chromosome) == Key("str", chromosome, 0, 0, 0)   \* the name of a chromosome
\* SUP_INFO_KEY = "SIK": the string that also names the last chromosome of the inputs
SUP_INFO_KEY == StrKey(MaxChromosome)

\* EncompassedData.__key: (chromosome, position, strand)
EncompassedKey(ed) == Key("ed", ed.chromosome, ed.position, StrandNum(ed.strand), 0)
\* EncompassingData.__key: (chromosome, startPos, endPos, strand)
EncompassingKey(eg) ==
    Key("eg", eg.chromosome, eg.startPos, eg.endPos, StrandNum(eg.strand))

\* Values stored in a dictionary: a count or a reference to a child dictionary.
IntVal(n) == [t |-> "int", n |-> n]
DictVal(id) == [t |-> "dict", n |-> id]
\* the list stored under SUP_INFO_KEY: a reference into the handler's lists
ListVal(id) == [t |-> "list", n |-> id]

(***************************************************************************)
(* Input records.                                                          *)
(***************************************************************************)
DataKinds ==
    {"StrandComparisonODS", "RelativePosODS", "EncompassingFeatureODS",
     "SimpleEncompassingColStrODS"}
NoStratifierData == [k \in DataKinds |-> [data |-> None, ambiguous |-> FALSE]]

NoEncompassed ==
    [chromosome |-> 0, position |-> 0, strand |-> "", stratifierData |-> NoStratifierData,
     line |-> 0]
NoEncompassing ==
    [chromosome |-> 0, startPos |-> 0, endPos |-> 0, center |-> 0, strand |-> "", line |-> 0]
IsNone(feature) == feature.line = 0

\* EncompassedData.__init__ / setLocationData: position = (start + end - 1) / 2
constructEncompassedFeature(line, n) ==
    [chromosome |-> line.chrom,
     position |-> line.start + line.end - 1,
     strand |-> line.strand,
     stratifierData |-> NoStratifierData,
     line |-> n]

\* EncompassingData.__init__ / setLocationData:
\* startPos = start, endPos = end - 1, center = (startPos + endPos) / 2
constructEncompassingFeature(line, n) ==
    [chromosome |-> line.chrom,
     startPos |-> 2 * line.start,
     endPos |-> 2 * (line.end - 1),
     center |-> line.start + line.end - 1,
     strand |-> line.strand,
     line |-> n]

\* EncompassedData.updateStratifierData
updateStratifierData(ed, kind, newData) ==
    LET old == ed.stratifierData[kind]
        ambiguous == old.ambiguous \/ (old.data # None /\ old.data # newData)
    IN [ed EXCEPT !.stratifierData[kind] = [data |-> newData, ambiguous |-> ambiguous]]

\* EncompassedData.__lt__: (chromosome, position), strand excluded
EncompassedLess(x, y) ==
    \/ x.chromosome < y.chromosome
    \/ x.chromosome = y.chromosome /\ x.position < y.position


(***************************************************************************)
(* Generic helpers.                                                        *)
(***************************************************************************)
RECURSIVE SeqOfInts(_)
\* The elements of a finite set of integers, ascending.
SeqOfInts(S) ==
    IF S = {} THEN <<>>
    ELSE LET m == CHOOSE x \in S : \A y \in S : x <= y
         IN <<m>> \o SeqOfInts(S \ {m})

KeyRank(k) ==
    CASE k.t = "bool" -> 0 [] k.t = "num" -> 1 [] k.t = "ed" -> 2
      [] k.t = "eg" -> 3 [] OTHER -> 4
\* A total order on keys.  Within one Python type it is the order sorted() uses
\* (numbers numerically; features by (chromosome, start[, end]), the order of
\* __lt__); features that __lt__ leaves unordered, which differ in strand only,
\* are ordered by strand.
KeyLess(x, y) ==
    LET u == <<KeyRank(x), x.a, x.b, x.c, x.d>>
        v == <<KeyRank(y), y.a, y.b, y.c, y.d>>
    IN \E j \in 1..5 : u[j] < v[j] /\ \A l \in 1..(j - 1) : u[l] = v[l]

RECURSIVE SortedKeys(_)
SortedKeys(S) ==
    IF S = {} THEN <<>>
    ELSE LET m == CHOOSE x \in S : \A y \in S \ {x} : KeyLess(x, y)
         IN <<m>> \o SortedKeys(S \ {m})

RECURSIVE Digits(_)
\* str(n) for a natural number n: its decimal digits.
Digits(n) == IF n < 10 THEN <<n>> ELSE Digits(n \div 10) \o <<n % 10>>

(***************************************************************************)
(* The output data structure.  Python dictionaries are objects: a          *)
(* stratifier's outputDataDictionaries list and the table hold references  *)
(* to the same dictionaries.  heap[id] is the dictionary with reference    *)
(* id, a function from keys to values; a dictionary that the table no      *)
(* longer reaches stays in the heap while a stratifier still lists it.     *)
(***************************************************************************)
NoError == ""
Failed(h) == h.err # NoError
Raise(h, e) == IF Failed(h) THEN h ELSE [h EXCEPT !.err = e]

HasKey(h, d, key) == key \in DOMAIN h.heap[d]
DictSet(h, d, key, val) == [h EXCEPT !.heap[d] = (key :> val) @@ @]

\* childDataStratifier is not None
hasChildStratifier(h, i) == i < Len(h.outputDataStratifiers)

\* The operators that create dictionaries take and return a pair r: the handler
\* r.h and the list r.new of the references of the dictionaries created so far.
Created(h) == [h |-> h, new |-> <<>>]

RECURSIVE setNewDictionaries(_, _, _)
\* for key in keys: dictionary[key] = dict()
setNewDictionaries(r, d, keys) ==
    IF keys = <<>> THEN r
    ELSE setNewDictionaries(
            [h |-> [r.h EXCEPT !.heap =
                       Append([@ EXCEPT ![d] = (Head(keys) :> DictVal(Len(r.h.heap) + 1)) @@ @],
                              <<>>)],
             new |-> Append(r.new, Len(r.h.heap) + 1)],
            d, Tail(keys))

\* SupplementalInformationHandler.__init__
SupplementalInformationHandler(outputName, updateUntilExit, updateOnCount) ==
    [outputName |-> outputName, updateUntilExit |-> updateUntilExit,
     updateOnCount |-> updateOnCount]

\* SimpleColumnSupInfoHandler(removeDups = False): the information is the list of
\* the column values seen.  The column is one that tells the records apart, and a
\* value is written here as the lines of the two records of the call.
initializeSupplementalInfo == <<>>
updateSupplementalInfo(currentInfo, ed, eg) ==
    Append(currentInfo, [ed |-> ed.line, eg |-> eg.line])

\* dictionary[SUP_INFO_KEY] = list() for the dictionary d
setSupplementalInfoList(h, d) ==
    [h EXCEPT !.lists = Append(@, <<>>),
              !.heap[d] = (SUP_INFO_KEY :> ListVal(Len(h.lists) + 1)) @@ @]

\* dictionary[SUP_INFO_KEY].append(supplementalInfoHandler.initializeSupplementalInfo())
appendSupplementalInfo(h, d) ==
    IF Failed(h) THEN h
    ELSE IF ~HasKey(h, d, SUP_INFO_KEY) THEN Raise(h, "KeyError")
    ELSE [h EXCEPT !.lists[h.heap[d][SUP_INFO_KEY].n] = Append(@, initializeSupplementalInfo)]

RECURSIVE appendSupplementalInfos(_, _, _)
\* for supplementalInfoHandler in self.supplementalInfoHandlers: ... append(...)
appendSupplementalInfos(h, d, n) ==
    IF n = 0 THEN h ELSE appendSupplementalInfos(appendSupplementalInfo(h, d), d, n - 1)

RECURSIVE initializeSupplementalInfoLists(_, _, _, _)
\* initializeChildDictionaries, lines 100-104: the lists of the new child
\* dictionaries of the dictionary d under the keys
initializeSupplementalInfoLists(h, i, d, keys) ==
    IF keys = <<>> THEN h
    ELSE initializeSupplementalInfoLists(
            appendSupplementalInfos(setSupplementalInfoList(h, h.heap[d][Head(keys)].n),
                                    h.heap[d][Head(keys)].n,
                                    Len(h.outputDataStratifiers[i].supplementalInfoHandlers)),
            i, d, Tail(keys))

\* OutputDataStratifier.initializeChildDictionaries of the stratifier at level i
initializeChildDictionaries(r, i, d, keys) ==
    IF r.h.outputDataStratifiers[i].supplementalInfoHandlers = <<>>
    THEN setNewDictionaries(r, d, keys)
    ELSE [setNewDictionaries(r, d, keys) EXCEPT
             !.h = initializeSupplementalInfoLists(@, i, d, keys)]

RECURSIVE setZeros(_, _, _)
\* for key in keys: dictionary[key] = 0
setZeros(h, d, keys) ==
    IF keys = <<>> THEN h
    ELSE setZeros(DictSet(h, d, Head(keys), IntVal(0)), d, Tail(keys))

\* the body of the for loop of OutputDataStratifier.addDictionaries, or of
\* attemptAddKey, for the dictionary d listed by stratifier i
addKeysToDictionary(r, i, d, keys) ==
    IF hasChildStratifier(r.h, i)
    THEN initializeChildDictionaries(r, i, d, keys)
    ELSE [r EXCEPT !.h = setZeros(@, d, keys)]

RECURSIVE addDictionariesLoop(_, _, _)
\* the for loop of OutputDataStratifier.addDictionaries
addDictionariesLoop(r, i, dictionaries) ==
    IF dictionaries = <<>> THEN r
    ELSE addDictionariesLoop(
            addKeysToDictionary(
                [r EXCEPT !.h.outputDataStratifiers[i].outputDataDictionaries =
                              Append(@, Head(dictionaries))],
                i, Head(dictionaries), SortedKeys(r.h.outputDataStratifiers[i].allKeys)),
            i, Tail(dictionaries))

RECURSIVE addDictionaries(_, _, _)
\* OutputDataStratifier.addDictionaries
addDictionaries(h, i, dictionaries) ==
    LET AddToChild(r) ==
            IF hasChildStratifier(r.h, i) THEN addDictionaries(r.h, i + 1, r.new) ELSE r.h
    IN AddToChild(addDictionariesLoop(Created(h), i, dictionaries))

RECURSIVE attemptAddKeyLoop(_, _, _, _)
\* the for loop of OutputDataStratifier.attemptAddKey
attemptAddKeyLoop(r, i, dictionaries, key) ==
    IF dictionaries = <<>> THEN r
    ELSE attemptAddKeyLoop(addKeysToDictionary(r, i, Head(dictionaries), <<key>>),
                           i, Tail(dictionaries), key)

\* OutputDataStratifier.attemptAddKey
attemptAddKey(h, i, key) ==
    IF Failed(h) THEN h
    ELSE IF key = SUP_INFO_KEY THEN Raise(h, "AssertionError")
    ELSE IF key \in h.outputDataStratifiers[i].allKeys THEN h
    ELSE LET AddToChild(r) ==
                 IF hasChildStratifier(r.h, i) THEN addDictionaries(r.h, i + 1, r.new)
                 ELSE r.h
         IN AddToChild(attemptAddKeyLoop(
                Created([h EXCEPT !.outputDataStratifiers[i].allKeys = @ \cup {key}]),
                i, h.outputDataStratifiers[i].outputDataDictionaries, key))

RECURSIVE newLevelLoop(_, _)
\* one pass of the outer loop of getNewStratificationLevelDictionaries: every
\* value of every listed dictionary is replaced by a new empty dictionary
newLevelLoop(r, dictionaries) ==
    IF dictionaries = <<>> THEN r
    ELSE newLevelLoop(
            setNewDictionaries(r, Head(dictionaries),
                               SortedKeys(DOMAIN r.h.heap[Head(dictionaries)])),
            Tail(dictionaries))

RECURSIVE newLevels(_, _)
\* the outer loop of getNewStratificationLevelDictionaries, n passes left; r.new
\* is the list of the dictionaries of the current level
newLevels(r, n) ==
    IF n = 0 THEN r
    ELSE newLevels(newLevelLoop(Created(r.h), r.new), n - 1)

\* CounterOutputDataHandler.getNewStratificationLevelDictionaries
getNewStratificationLevelDictionaries(h) ==
    IF Len(h.outputDataStratifiers) = 0
    THEN [h |-> [h EXCEPT !.heap = Append(@, <<>>),
                          !.outputDataStructure = DictVal(Len(h.heap) + 1)],
          new |-> <<Len(h.heap) + 1>>]
    ELSE newLevels([h |-> h, new |-> <<h.outputDataStructure.n>>],
                   Len(h.outputDataStratifiers))


(***************************************************************************)
(* Output data stratifiers.  A stratifier is a record; the stratifier at  *)
(* index i of outputDataStratifiers has the one at i + 1 as its           *)
(* childDataStratifier.  A pipeline entry of the configuration is         *)
(* [kind, ambiguityHandling, centerRelativePos, outputName].              *)
(***************************************************************************)
\* outputName = None
NoOutputName == ""

\* OutputDataStratifier.__init__ before the attemptAddKey(None) of line 74
newStratifier(entry, dictionaries) ==
    [kind |-> entry.kind,
     ambiguityHandling |-> IF entry.kind = "EncompassedFeatureODS" THEN "tolerate"
                           ELSE entry.ambiguityHandling,
     outputDataDictionaries |-> dictionaries,
     outputName |-> entry.outputName,
     supplementalInfoHandlers |-> <<>>,
     allKeys |-> {},
     sortedKeys |-> <<>>,
     sortedKeysIsNone |-> TRUE,
     centerRelativePos |-> entry.centerRelativePos,
     relativePosIntPositions |-> {},
     relativePosHalfPositions |-> {},
     usedIntPosition |-> FALSE,
     usedHalfPosition |-> FALSE]

RECURSIVE setZerosInAll(_, _, _)
\* for dictionary in self.outputDataDictionaries: dictionary[key] = 0 for the keys
setZerosInAll(h, dictionaries, keys) ==
    IF dictionaries = <<>> THEN h
    ELSE setZerosInAll(setZeros(h, Head(dictionaries), keys), Tail(dictionaries), keys)

\* StrandComparisonODS.__init__ after the parent constructor
initStrandComparisonODS(h, i) ==
    [setZerosInAll(h, h.outputDataStratifiers[i].outputDataDictionaries,
                   <<BoolKey(TRUE), BoolKey(FALSE)>>)
        EXCEPT !.outputDataStratifiers[i].allKeys = @ \cup {BoolKey(TRUE), BoolKey(FALSE)}]

\* PlaceholderODS.__init__ after the parent constructor
initPlaceholderODS(h, i) ==
    [setZerosInAll(h, h.outputDataStratifiers[i].outputDataDictionaries, <<None>>)
        EXCEPT !.outputDataStratifiers[i].allKeys = @ \cup {None}]

\* RelativePosODS.__init__, lines 290-305: outputDataRange = range(start, stop),
\* in bases, and whether the range length is even
outputDataRange(centerRelativePos, encompassingFeature, extraRangeRadius) ==
    LET outputDataRangeLength ==
            (encompassingFeature.endPos - encompassingFeature.startPos) \div 2
            + extraRangeRadius * 2 + 1
        halfOutputDataRangeLength == outputDataRangeLength \div 2
        even == outputDataRangeLength % 2 = 0
    IN [start |-> IF centerRelativePos
                  THEN (IF even THEN 1 - halfOutputDataRangeLength
                        ELSE 0 - halfOutputDataRangeLength)
                  ELSE 0,
        stop |-> IF centerRelativePos
                 THEN (IF even THEN halfOutputDataRangeLength
                       ELSE halfOutputDataRangeLength + 1)
                 ELSE outputDataRangeLength,
        even |-> even]

\* RelativePosODS.__init__, lines 307-319, for the range rg.  The keys are in
\* half-bases (the integer x is 2x, x + 0.5 is 2x + 1).
setRelativePositions(h, i, rg, centered, intPositions, halfPositions) ==
    [setZerosInAll(h, h.outputDataStratifiers[i].outputDataDictionaries,
                   SortedKeys(intPositions \cup halfPositions
                              \cup (IF rg.even /\ centered THEN {NumKey(2 * rg.start - 1)}
                                    ELSE {})))
        EXCEPT !.outputDataStratifiers[i].allKeys = @ \cup intPositions \cup halfPositions,
               !.outputDataStratifiers[i].relativePosIntPositions = intPositions,
               !.outputDataStratifiers[i].relativePosHalfPositions = halfPositions]

\* RelativePosODS.__init__ after the parent constructor
initRelativePosODS(h, i, encompassingFeature, extraRangeRadius) ==
    IF IsNone(encompassingFeature) THEN Raise(h, "AttributeError")
    \* line 298: range() of outputDataRangeLength, a float
    ELSE IF ~h.outputDataStratifiers[i].centerRelativePos THEN Raise(h, "TypeError")
    ELSE LET \* lines 313 and 317: the positions are collected in the pass over the
             \* first dictionary (z == 0), and there is none when the level is empty
             Collected(positions) ==
                 IF h.outputDataStratifiers[i].outputDataDictionaries = <<>> THEN {}
                 ELSE positions
             Positions(rg, centered) ==
                 setRelativePositions(h, i, rg, centered,
                     Collected({NumKey(2 * x) : x \in rg.start..(rg.stop - 1)}),
                     Collected({NumKey(2 * x + 1) :
                         x \in {y \in rg.start..(rg.stop - 1) :
                                    (rg.even /\ centered) \/ y # rg.stop - 1}}))
         IN Positions(outputDataRange(h.outputDataStratifiers[i].centerRelativePos,
                                      encompassingFeature, extraRangeRadius),
                      h.outputDataStratifiers[i].centerRelativePos)

\* OutputDataStratifier.__init__, lines 73-74
initOutputDataStratifier(h, i) ==
    IF h.outputDataStratifiers[i].ambiguityHandling = "record"
    THEN attemptAddKey(h, i, None) ELSE h

\* <subclass>.__init__ after the parent constructor
initSubclass(h, i, entry, encompassingFeature, extraRangeRadius) ==
    CASE entry.kind = "StrandComparisonODS" -> initStrandComparisonODS(h, i)
      [] entry.kind = "PlaceholderODS" -> initPlaceholderODS(h, i)
      [] entry.kind = "RelativePosODS" ->
             initRelativePosODS(h, i, encompassingFeature, extraRangeRadius)
      [] OTHER -> h

\* add...Stratifier with CounterOutputDataHandler.addNewStratifier: the new
\* level's dictionaries, the stratifier's constructors, the append (the stratifier
\* becomes the childDataStratifier of the one before it)
addStratifier(h, entry, encompassingFeature, extraRangeRadius) ==
    IF Failed(h) THEN h
    ELSE LET Appended(r) ==
                 [r.h EXCEPT !.outputDataStratifiers = Append(@, newStratifier(entry, r.new))]
         IN initSubclass(
                initOutputDataStratifier(Appended(getNewStratificationLevelDictionaries(h)),
                                         Len(h.outputDataStratifiers) + 1),
                Len(h.outputDataStratifiers) + 1, entry, encompassingFeature,
                extraRangeRadius)

\* <subclass>.updateConfirmedEncompassedFeature: the encompassed feature with its
\* stratifierData updated
updateConfirmedEncompassedFeature(ods, ed, eg) ==
    CASE ods.kind = "RelativePosODS" ->
            updateStratifierData(ed, "RelativePosODS",
                NumKey(IF ods.centerRelativePos THEN ed.position - eg.center
                       ELSE ed.position - eg.startPos))
      [] ods.kind = "StrandComparisonODS" ->
            updateStratifierData(ed, "StrandComparisonODS", BoolKey(ed.strand = eg.strand))
      [] ods.kind = "EncompassingFeatureODS" ->
            updateStratifierData(ed, "EncompassingFeatureODS", EncompassingKey(eg))
      [] ods.kind = "SimpleEncompassingColStrODS" ->
            updateStratifierData(ed, "SimpleEncompassingColStrODS", StrKey(eg.chromosome))
      [] OTHER -> ed

\* A faulty getRelevantKey: the data is returned whether ambiguous or not.
relevantKeyDespiteAmbiguity(ods, ed) == ed.stratifierData[ods.kind].data

\* OutputDataStratifier.getRelevantKey (the default implementation)
defaultRelevantKey(ods, ed) ==
    LET sd == ed.stratifierData[ods.kind]
    IN IF ods.ambiguityHandling = "tolerate" \/ ~sd.ambiguous THEN sd.data ELSE None

\* <subclass>.getRelevantKey: the handler after the call and the key returned
getRelevantKey(h, i, ed) ==
    LET ods == h.outputDataStratifiers[i]
    IN CASE ods.kind = "EncompassedFeatureODS" ->
              [h |-> attemptAddKey(h, i, EncompassedKey(ed)), key |-> EncompassedKey(ed)]
         [] ods.kind = "PlaceholderODS" -> [h |-> h, key |-> None]
         [] ods.kind = "RelativePosODS" ->
              LET key == defaultRelevantKey(ods, ed)
                  sd == ed.stratifierData[ods.kind]
                  returnsData == ods.ambiguityHandling = "tolerate" \/ ~sd.ambiguous
              IN [h |-> IF returnsData
                        THEN [h EXCEPT !.outputDataStratifiers[i].usedIntPosition =
                                           @ \/ key \in ods.relativePosIntPositions,
                                       !.outputDataStratifiers[i].usedHalfPosition =
                                           @ \/ key \in ods.relativePosHalfPositions]
                        ELSE h,
                  key |-> key]
         [] ods.kind = "SimpleEncompassingColStrODS" ->
              [h |-> IF defaultRelevantKey(ods, ed) # None
                     THEN attemptAddKey(h, i, defaultRelevantKey(ods, ed)) ELSE h,
               key |-> defaultRelevantKey(ods, ed)]
         [] OTHER -> [h |-> h, key |-> defaultRelevantKey(ods, ed)]


(***************************************************************************)
(* CounterOutputDataHandler: events.                                       *)
(* The handler h carries one ghost field, countLog: the sequence of count  *)
(* increments made so far, each with the input line of the encompassed     *)
(* feature counted, the key path of the incremented count and the number  *)
(* of rows written to the output file by then.                             *)
(***************************************************************************)
nbStratifiers(h) == Len(h.outputDataStratifiers)

\* the value of dictionary d at key, to be used as the next dictionary: KeyError
\* when the key is missing
Lookup(h, d, key) ==
    IF Failed(h) THEN [h |-> h, val |-> IntVal(0)]
    ELSE IF ~HasKey(h, d, key) THEN [h |-> Raise(h, "KeyError"), val |-> IntVal(0)]
    ELSE [h |-> h, val |-> h.heap[d][key]]

RECURSIVE keyPathsTo(_, _, _, _)
\* the key paths that lead from the dictionary d0, i levels down, to the dictionary d
keyPathsTo(h, d0, d, i) ==
    IF i = 0 THEN (IF d0 = d THEN {<<>>} ELSE {})
    ELSE UNION {{<<key>> \o path : path \in keyPathsTo(h, h.heap[d0][key].n, d, i - 1)} :
                   key \in {x \in DOMAIN h.heap[d0] : h.heap[d0][x].t = "dict"}}

\* currentODSDict[SUP_INFO_KEY][k] = supplementalInfoHandler.updateSupplementalInfo(
\*     currentODSDict[SUP_INFO_KEY][k], encompassedFeature, encompassingFeature)
\* for handler k of the stratifier at level i, with the ghost log entry: the
\* caller, the handler, the dictionary updated and the key paths under which the
\* table holds it, the features passed and the count increments made before
updateSupplementalInfoAt(h, i, k, currentODSDict, ed, eg, caller) ==
    IF Failed(h) THEN h
    ELSE IF ~HasKey(h, currentODSDict, SUP_INFO_KEY) THEN Raise(h, "KeyError")
    ELSE IF h.heap[currentODSDict][SUP_INFO_KEY].t # "list" THEN Raise(h, "TypeError")
    ELSE IF k > Len(h.lists[h.heap[currentODSDict][SUP_INFO_KEY].n]) THEN Raise(h, "IndexError")
    ELSE [h EXCEPT !.lists[h.heap[currentODSDict][SUP_INFO_KEY].n][k] =
                       updateSupplementalInfo(@, ed, eg),
                   !.supLog = Append(@, [caller |-> caller, level |-> i, handler |-> k,
                                         dictionary |-> currentODSDict,
                                         paths |-> keyPathsTo(h, h.outputDataStructure.n,
                                                              currentODSDict, i),
                                         list |-> h.heap[currentODSDict][SUP_INFO_KEY].n,
                                         ed |-> ed.line, eg |-> eg.line,
                                         counted |-> Len(h.countLog)])]

RECURSIVE updateSupplementalInfos(_, _, _, _, _, _, _)
\* for i, supplementalInfoHandler in enumerate(outputDataStratifier.supplementalInfoHandlers)
\* from handler k on: the handlers with updateUntilExit in updateODSs, those with
\* updateOnCount in countFeature
updateSupplementalInfos(h, i, k, currentODSDict, ed, eg, caller) ==
    IF Failed(h) \/ k > Len(h.outputDataStratifiers[i].supplementalInfoHandlers) THEN h
    ELSE updateSupplementalInfos(
            IF (caller = "updateODSs"
                    /\ h.outputDataStratifiers[i].supplementalInfoHandlers[k].updateUntilExit)
               \/ (caller = "countFeature"
                    /\ h.outputDataStratifiers[i].supplementalInfoHandlers[k].updateOnCount)
            THEN updateSupplementalInfoAt(h, i, k, currentODSDict, ed, eg, caller)
            ELSE h,
            i, k + 1, currentODSDict, ed, eg, caller)

RECURSIVE updateODSsLoop(_, _, _, _, _)
\* the for loop of CounterOutputDataHandler.updateODSs from stratifier i on;
\* currentODSDict is the reference held by the local variable of that name
updateODSsLoop(h, ed, eg, i, currentODSDict) ==
    IF Failed(h) \/ i > nbStratifiers(h) THEN [h |-> h, ed |-> ed]
    ELSE LET Updated(ed1) ==
                 IF i = nbStratifiers(h) THEN [h |-> h, ed |-> ed1]
                 ELSE LET Next1(l) ==
                              IF Failed(l.h) THEN [h |-> l.h, ed |-> ed1]
                              ELSE IF l.val.t = "dict"
                              THEN updateODSsLoop(
                                       updateSupplementalInfos(l.h, i, 1, l.val.n, ed1, eg,
                                                               "updateODSs"),
                                       ed1, eg, i + 1, l.val.n)
                              ELSE [h |-> Raise(l.h, "TypeError"), ed |-> ed1]
                          Keyed(r) ==
                              Next1(Lookup(r.h,
                                           IF i = 1 THEN h.outputDataStructure.n
                                           ELSE currentODSDict,
                                           r.key))
                      IN Keyed(getRelevantKey(h, i, ed1))
         IN Updated(updateConfirmedEncompassedFeature(h.outputDataStratifiers[i], ed, eg))

\* CounterOutputDataHandler.updateODSs
updateODSs(h, ed, eg) == updateODSsLoop(h, ed, eg, 1, 0)

\* += 1 on the count at key of the dictionary d, with the ghost log entry
increment(h, d, key, val, line, path) ==
    IF Failed(h) THEN h
    ELSE IF val.t # "int" THEN Raise(h, "TypeError")
    ELSE [h EXCEPT !.heap[d][key] = IntVal(val.n + 1),
                   !.countLog = Append(@, [line |-> line, path |-> path,
                                           written |-> Len(h.writer.outputFile)])]

RECURSIVE countFeatureLoop(_, _, _, _, _, _)
\* CounterOutputDataHandler.countFeature from stratifier i on, path the keys so far
countFeatureLoop(h, ed, eg, i, currentODSDict, path) ==
    IF Failed(h) THEN h
    ELSE LET Found(l, key) ==
                 IF i < nbStratifiers(h)
                 THEN (IF Failed(l.h) THEN l.h
                       ELSE IF l.val.t = "dict"
                       THEN countFeatureLoop(
                                updateSupplementalInfos(l.h, i, 1, l.val.n, ed, eg,
                                                        "countFeature"),
                                ed, eg, i + 1, l.val.n, Append(path, key))
                       ELSE Raise(l.h, "TypeError"))
                 ELSE increment(l.h, currentODSDict, key, l.val, ed.line, Append(path, key))
             Keyed(r) == Found(Lookup(r.h, currentODSDict, r.key), r.key)
         IN Keyed(getRelevantKey(h, i, ed))

\* CounterOutputDataHandler.countFeature
countFeature(h, ed, eg) ==
    IF Failed(h) THEN h
    ELSE IF nbStratifiers(h) = 0
    THEN [h EXCEPT !.outputDataStructure = IntVal(@.n + 1),
                   !.countLog = Append(@, [line |-> ed.line, path |-> <<>>,
                                           written |-> Len(h.writer.outputFile)])]
    ELSE countFeatureLoop(h, ed, eg, 1, h.outputDataStructure.n, <<>>)

RECURSIVE ODSsOnNonCounted(_, _, _)
\* for outputDataStratifier in ...: outputDataStratifier.onNonCountedEncompassedFeature
\* (only EncompassedFeatureODS overrides the empty default)
ODSsOnNonCounted(h, ed, i) ==
    IF Failed(h) \/ i > nbStratifiers(h) THEN h
    ELSE ODSsOnNonCounted(
            IF h.outputDataStratifiers[i].kind = "EncompassedFeatureODS"
            THEN attemptAddKey(h, i, EncompassedKey(ed)) ELSE h,
            ed, i + 1)

\* if self.encompassedFeaturesToWrite is not None:
\*     self.encompassedFeaturesToWrite.add(encompassedFeature)
addEncompassedFeatureToWrite(h, ed) ==
    IF ~Failed(h) /\ h.encompassedFeaturesToWrite.isSet
    THEN [h EXCEPT !.encompassedFeaturesToWrite.set = @ \cup {EncompassedKey(ed)}]
    ELSE h

\* the encompassing feature as a dictionary key or set member (None when the
\* encompassing file was empty and the constructor passed None)
KeyOfEncompassing(eg) == IF IsNone(eg) THEN None ELSE EncompassingKey(eg)

\* if self.encompassingFeaturesToWrite is not None:
\*     self.encompassingFeaturesToWrite.add(encompassingFeature)
addEncompassingFeatureToWrite(h, eg) ==
    IF ~Failed(h) /\ h.encompassingFeaturesToWrite.isSet
    THEN [h EXCEPT !.encompassingFeaturesToWrite.set = @ \cup {KeyOfEncompassing(eg)}]
    ELSE h

\* A faulty onNonCountedEncompassedFeature: the feature is tracked whether or not
\* trackAllEncompassed is set.
onNonCountedEncompassedFeatureUnconditionally(h, ed, eg) ==
    IF Failed(h) THEN h
    ELSE LET Count(h2) == IF h.countAllEncompassed THEN countFeature(h2, ed, eg) ELSE h2
         IN Count(addEncompassedFeatureToWrite(ODSsOnNonCounted(h, ed, 1), ed))

\* CounterOutputDataHandler.onNonCountedEncompassedFeature
onNonCountedEncompassedFeature(h, ed, eg) ==
    IF Failed(h) \/ ~h.trackAllEncompassed THEN h
    ELSE LET Count(h2) == IF h.countAllEncompassed THEN countFeature(h2, ed, eg) ELSE h2
         IN Count(addEncompassedFeatureToWrite(ODSsOnNonCounted(h, ed, 1), ed))

RECURSIVE ODSsOnNewEncompassingUnasserted(_, _, _)
\* A faulty ODSsOnNewEncompassing: EncompassingFeatureODS adds the key without
\* asserting that it is new.
ODSsOnNewEncompassingUnasserted(h, eg, i) ==
    IF Failed(h) \/ i > nbStratifiers(h) THEN h
    ELSE ODSsOnNewEncompassingUnasserted(
            IF h.outputDataStratifiers[i].kind = "EncompassingFeatureODS"
            THEN attemptAddKey(h, i, KeyOfEncompassing(eg))
            ELSE h,
            eg, i + 1)

RECURSIVE ODSsOnNewEncompassing(_, _, _)
\* for outputDataStratifier in ...: outputDataStratifier.onNewEncompassingFeature
\* (only EncompassingFeatureODS overrides the empty default)
ODSsOnNewEncompassing(h, eg, i) ==
    IF Failed(h) \/ i > nbStratifiers(h) THEN h
    ELSE ODSsOnNewEncompassing(
            IF h.outputDataStratifiers[i].kind = "EncompassingFeatureODS"
            THEN (IF KeyOfEncompassing(eg) \in h.outputDataStratifiers[i].allKeys
                  THEN Raise(h, IF IsNone(eg) THEN "AttributeError" ELSE "AssertionError")
                  ELSE attemptAddKey(h, i, KeyOfEncompassing(eg)))
            ELSE h,
            eg, i + 1)

\* CounterOutputDataHandler.onNewEncompassingFeature
onNewEncompassingFeature(h, eg) ==
    IF Failed(h) \/ ~h.trackAllEncompassing THEN h
    ELSE addEncompassingFeatureToWrite(ODSsOnNewEncompassing(h, eg, 1), eg)

RECURSIVE ignoreFeatureLoop(_, _, _)
\* lines 310-312: the loop over ignoreAmbiguityODSs; g.h is the handler and
\* g.ignoreFeature the flag
ignoreFeatureLoop(g, ed, indices) ==
    IF Failed(g.h) \/ indices = <<>> THEN g
    ELSE LET Keyed(r) ==
                 ignoreFeatureLoop(
                    [h |-> r.h, ignoreFeature |-> g.ignoreFeature \/ r.key = None],
                    ed, Tail(indices))
         IN Keyed(getRelevantKey(g.h, Head(indices), ed))

\* A faulty countOrDefer: under tolerant handling the feature is counted on its
\* exiting event too.
countOrDeferCountingOnExit(u, eg, exitingEncompassment) ==
    IF Failed(u.h) THEN u.h
    ELSE IF ~u.h.nontolerantAmbiguityHandling
    THEN (IF ~exitingEncompassment THEN countFeature(u.h, u.ed, eg)
          ELSE addEncompassedFeatureToWrite(countFeature(u.h, u.ed, eg), u.ed))
    ELSE IF exitingEncompassment
    THEN LET Decided(g) ==
                 IF g.ignoreFeature THEN onNonCountedEncompassedFeature(g.h, u.ed, eg)
                 ELSE addEncompassedFeatureToWrite(countFeature(g.h, u.ed, eg), u.ed)
         IN Decided(ignoreFeatureLoop([h |-> u.h, ignoreFeature |-> FALSE], u.ed,
                                      u.h.ignoreAmbiguityODSs))
    ELSE u.h

\* lines 301-318 of onEncompassedFeatureInEncompassingFeature: u.h and u.ed are the
\* handler and the encompassed feature after the update
countOrDefer(u, eg, exitingEncompassment) ==
    IF Failed(u.h) THEN u.h
    ELSE IF ~u.h.nontolerantAmbiguityHandling
    THEN (IF ~exitingEncompassment THEN countFeature(u.h, u.ed, eg)
          ELSE addEncompassedFeatureToWrite(u.h, u.ed))
    ELSE IF exitingEncompassment
    THEN LET Decided(g) ==
                 IF g.ignoreFeature THEN onNonCountedEncompassedFeature(g.h, u.ed, eg)
                 ELSE addEncompassedFeatureToWrite(countFeature(g.h, u.ed, eg), u.ed)
         IN Decided(ignoreFeatureLoop([h |-> u.h, ignoreFeature |-> FALSE], u.ed,
                                      u.h.ignoreAmbiguityODSs))
    ELSE u.h

\* A faulty onEncompassedFeatureInEncompassingFeature: the stratifiers and the
\* supplemental information are updated for an exiting feature as well.
onEncompassedFeatureUpdatedOnExit(h, ed, eg, exitingEncompassment) ==
    IF Failed(h) THEN [h |-> h, ed |-> ed]
    ELSE LET Updated(u) == [h |-> countOrDefer(u, eg, exitingEncompassment), ed |-> u.ed]
         IN Updated(updateODSs(addEncompassingFeatureToWrite(h, eg), ed, eg))

\* CounterOutputDataHandler.onEncompassedFeatureInEncompassingFeature: the handler
\* and the encompassed feature after the call
onEncompassedFeatureInEncompassingFeature(h, ed, eg, exitingEncompassment) ==
    IF Failed(h) THEN [h |-> h, ed |-> ed]
    ELSE LET Updated(u) == [h |-> countOrDefer(u, eg, exitingEncompassment), ed |-> u.ed]
         IN Updated(IF ~exitingEncompassment
                    THEN updateODSs(addEncompassingFeatureToWrite(h, eg), ed, eg)
                    ELSE [h |-> addEncompassingFeatureToWrite(h, eg), ed |-> ed])


(***************************************************************************)
(* OutputDataWriter.  The output file is the sequence of the rows written; *)
(* a row is a sequence of cells.  A key formatted by the str() or the      *)
(* getLocationString() of formatKeyForOutput, which keep every field of   *)
(* the key, is the cell [t |-> "name", level, key]; an output name is the *)
(* cell [t |-> "text", name]; a count is written by str() as its decimal  *)
(* digits; a cell that holds None is not a string.  No oDSSubs, custom    *)
(* names or count derivatives are configured, so column k of a row is the *)
(* k-th cell set.                                                          *)
(***************************************************************************)
Cell(t, level, key, name, s) == [t |-> t, level |-> level, key |-> key, name |-> name, s |-> s]
NameCell(level, key) == Cell("name", level, key, "", <<>>)
TextCell(name) == Cell("text", 0, None, name, <<>>)
NoneCell == Cell("None", 0, None, "", <<>>)
CountCell(n) == Cell("count", 0, None, "", Digits(n))
ReprCell == Cell("repr", 0, None, "", <<>>)   \* str() of a dict

\* an output name as a cell of a row
OutputNameCell(outputName) ==
    IF outputName = NoOutputName THEN NoneCell ELSE TextCell(outputName)

\* <subclass>.formatKeyForOutput for the stratifier at level i
formatKeyForOutput(ods, i, key) ==
    IF ods.kind = "PlaceholderODS" THEN OutputNameCell(ods.outputName)
    ELSE NameCell(i, key)

\* outputFile.write('\t'.join(row) + '\n'): TypeError when a cell is None
writeRow(h, row) ==
    IF Failed(h) THEN h
    ELSE IF \E j \in DOMAIN row : row[j] = NoneCell THEN Raise(h, "TypeError")
    ELSE [h EXCEPT !.writer.outputFile = Append(@, row)]

\* <subclass>.getSortedKeysForOutput
getSortedKeysForOutput(ods) ==
    CASE ods.kind = "RelativePosODS" ->
            LET outputKeys ==
                    IF ods.usedHalfPosition /\ ods.usedIntPosition
                    THEN ods.relativePosIntPositions \cup ods.relativePosHalfPositions
                    ELSE IF ods.usedHalfPosition THEN ods.relativePosHalfPositions
                    ELSE ods.relativePosIntPositions
            IN SortedKeys(outputKeys)
               \o (IF ods.ambiguityHandling = "record" THEN <<None>> ELSE <<>>)
      [] ods.kind = "StrandComparisonODS" ->
            <<BoolKey(TRUE), BoolKey(FALSE)>> \o (IF None \in ods.allKeys THEN <<None>> ELSE <<>>)
      [] OTHER ->
            SortedKeys(ods.allKeys \ {None}) \o (IF None \in ods.allKeys THEN <<None>> ELSE <<>>)

\* OutputDataStratifier.getKeysForOutput: the keys are sorted on the first call
\* and the list is kept in sortedKeys
getKeysForOutput(h, i) ==
    IF h.outputDataStratifiers[i].sortedKeysIsNone
    THEN LET Kept(keys) ==
                 [h |-> [h EXCEPT !.outputDataStratifiers[i].sortedKeys = keys,
                                  !.outputDataStratifiers[i].sortedKeysIsNone = FALSE],
                  keys |-> keys]
         IN Kept(getSortedKeysForOutput(h.outputDataStratifiers[i]))
    ELSE [h |-> h, keys |-> h.outputDataStratifiers[i].sortedKeys]

RECURSIVE flattenInfo(_)
\* separator.join(info): the values in their order
flattenInfo(info) ==
    IF info = <<>> THEN <<>> ELSE <<Head(info).ed, Head(info).eg>> \o flattenInfo(Tail(info))

\* SimpleColumnSupInfoHandler.getFormattedOutput
getFormattedOutput(info) ==
    IF info = <<>> THEN TextCell("NONE") ELSE Cell("info", 0, None, "", flattenInfo(info))

RECURSIVE upperHeaders(_, _)
\* getHeaders, lines 396-400: the output names of the stratifiers above the last
\* one from level j on, each followed by the output names of its handlers
upperHeaders(h, j) ==
    IF j >= nbStratifiers(h) THEN <<>>
    ELSE <<OutputNameCell(h.outputDataStratifiers[j].outputName)>>
         \o [k \in DOMAIN h.outputDataStratifiers[j].supplementalInfoHandlers |->
                OutputNameCell(h.outputDataStratifiers[j].supplementalInfoHandlers[k].outputName)]
         \o upperHeaders(h, j + 1)

\* OutputDataWriter.getHeaders
getHeaders(h) ==
    IF nbStratifiers(h) = 0 THEN [h |-> h, headers |-> <<>>]
    ELSE LET Headers(r) ==
                 [h |-> r.h,
                  headers |->
                      upperHeaders(h, 1)
                      \o [j \in 1..Len(r.keys) |->
                             formatKeyForOutput(h.outputDataStratifiers[nbStratifiers(h)],
                                                nbStratifiers(h), r.keys[j])]]
         IN Headers(getKeysForOutput(h, nbStratifiers(h)))

\* str(currentDataObject[key]) for a value of the last level
StrCell(val) == IF val.t = "int" THEN CountCell(val.n) ELSE ReprCell

RECURSIVE countCells(_, _, _, _)
\* lines 463-464: the cells str(currentDataObject[key]) for the keys of the last
\* level, after the cells already set; KeyError when a key is missing
countCells(h, d, keys, cells) ==
    IF Failed(h) THEN h
    ELSE IF keys = <<>> THEN writeRow(h, cells)
    ELSE IF ~HasKey(h, d, Head(keys)) THEN Raise(h, "KeyError")
    ELSE countCells(h, d, Tail(keys), Append(cells, StrCell(h.heap[d][Head(keys)])))

RECURSIVE supplementalInfoCells(_, _, _, _)
\* the cells getFormattedOutput(dictionary[SUP_INFO_KEY][k]) of the handlers of
\* level i from handler k on, after the cells of r.row; r.h fails when the list or
\* the entry is missing
supplementalInfoCells(r, i, d, k) ==
    IF Failed(r.h) \/ k > Len(r.h.outputDataStratifiers[i].supplementalInfoHandlers) THEN r
    ELSE IF ~HasKey(r.h, d, SUP_INFO_KEY) THEN [r EXCEPT !.h = Raise(@, "KeyError")]
    ELSE IF r.h.heap[d][SUP_INFO_KEY].t # "list" THEN [r EXCEPT !.h = Raise(@, "TypeError")]
    ELSE IF k > Len(r.h.lists[r.h.heap[d][SUP_INFO_KEY].n])
    THEN [r EXCEPT !.h = Raise(@, "IndexError")]
    ELSE supplementalInfoCells(
            [r EXCEPT !.row = Append(@, getFormattedOutput(
                                            r.h.lists[r.h.heap[d][SUP_INFO_KEY].n][k]))],
            i, d, k + 1)

RECURSIVE writeDataRows(_, _, _, _)
RECURSIVE writeDataRowsLoop(_, _, _, _, _)
\* the for loop of the first branch of OutputDataWriter.writeDataRows
writeDataRowsLoop(h, d, i, keys, row) ==
    IF Failed(h) \/ keys = <<>> THEN h
    ELSE IF ~HasKey(h, d, Head(keys)) THEN Raise(h, "KeyError")
    ELSE IF h.heap[d][Head(keys)].t # "dict" THEN Raise(h, "TypeError")
    ELSE LET Below(r) == writeDataRows(r.h, h.heap[d][Head(keys)].n, i + 1, r.row)
         IN writeDataRowsLoop(
                Below(supplementalInfoCells(
                          [h |-> h,
                           row |-> Append(row, formatKeyForOutput(h.outputDataStratifiers[i],
                                                                  i, Head(keys)))],
                          i, h.heap[d][Head(keys)].n, 1)),
                d, i, Tail(keys), row)

\* OutputDataWriter.writeDataRows at stratifier i (stratificationLevel + 1) for the
\* dictionary d, row the cells already set for this row
writeDataRows(h, d, i, row) ==
    IF Failed(h) THEN h
    ELSE IF i > nbStratifiers(h) THEN Raise(h, "IndexError")
    ELSE LET Rows(r) ==
                 IF i # nbStratifiers(h) THEN writeDataRowsLoop(r.h, d, i, r.keys, row)
                 \* line 465 reads the loop variable i of an empty loop
                 ELSE IF r.keys = <<>> /\ ~Failed(r.h) THEN Raise(r.h, "UnboundLocalError")
                 ELSE countCells(r.h, d, r.keys, row)
         IN Rows(getKeysForOutput(h, i))

\* OutputDataWriter.writeFeature (the output path does not end in .bed)
writeFeature(h, featureToWrite) ==
    IF Failed(h) THEN h
    ELSE IF h.writer.headers = <<>> THEN Raise(h, "IndexError")
    ELSE IF ~HasKey(h, h.outputDataStructure.n, featureToWrite) THEN Raise(h, "KeyError")
    ELSE LET Below(r) ==
                 writeDataRows(r.h, h.heap[h.outputDataStructure.n][featureToWrite].n, 2, r.row)
         IN Below(supplementalInfoCells(
                      [h |-> h,
                       row |-> <<formatKeyForOutput(h.outputDataStratifiers[1], 1,
                                                    featureToWrite)>>],
                      1, h.heap[h.outputDataStructure.n][featureToWrite].n, 1))

\* the feature left in the table
popKeeping(h, feature) == h

\* self.outputDataStructure.pop(feature)
pop(h, feature) ==
    IF Failed(h) THEN h
    ELSE [h EXCEPT !.heap[h.outputDataStructure.n] =
                       [k \in DOMAIN @ \ {feature} |-> @[k]]]

RECURSIVE writeWaitingLoop(_, _)
\* for feature in sorted(...ToWrite): writer.writeFeature(feature);
\*                                    outputDataStructure.pop(feature)
writeWaitingLoop(h, features) ==
    IF Failed(h) \/ features = <<>> THEN h
    ELSE writeWaitingLoop(pop(writeFeature(h, Head(features)), Head(features)),
                          Tail(features))

\* the first half of CounterOutputDataHandler.writeWaitingFeatures
writeWaitingEncompassedFeatures(h) ==
    IF Failed(h) \/ ~h.encompassedFeaturesToWrite.isSet THEN h
    ELSE LET Clear(w) ==
                 IF Failed(w) THEN w ELSE [w EXCEPT !.encompassedFeaturesToWrite.set = {}]
         IN Clear(writeWaitingLoop(h, SortedKeys(h.encompassedFeaturesToWrite.set)))

\* the second half of CounterOutputDataHandler.writeWaitingFeatures
writeWaitingEncompassingFeatures(h) ==
    IF Failed(h) \/ ~h.encompassingFeaturesToWrite.isSet THEN h
    ELSE LET Clear(w) ==
                 IF Failed(w) THEN w ELSE [w EXCEPT !.encompassingFeaturesToWrite.set = {}]
         IN Clear(writeWaitingLoop(h, SortedKeys(h.encompassingFeaturesToWrite.set)))

\* CounterOutputDataHandler.writeWaitingFeatures
writeWaitingFeatures(h) ==
    writeWaitingEncompassingFeatures(writeWaitingEncompassedFeatures(h))

\* self.outputFile.close()
close(h) == IF Failed(h) THEN h ELSE [h EXCEPT !.writer.closed = TRUE]

\* OutputDataWriter.finishIndividualFeatureWriting
finishIndividualFeatureWriting(h) == close(h)

\* OutputDataWriter.writeResults.  The writer reads its own outputDataStructure
\* attribute, bound in OutputDataWriter.__init__ (line 347): the same dictionary
\* as the handler's when there are stratifiers, the integer of that moment when
\* there are none.
writeResults(h) ==
    IF Failed(h) THEN h
    ELSE IF nbStratifiers(h) = 0
    THEN close(writeRow(h, <<CountCell(h.writer.outputDataStructure.n)>>))
    ELSE LET HeadersWritten(w) ==
                 IF Failed(w) THEN w ELSE [w EXCEPT !.writer.headerRows = @ + 1]
         IN close(writeDataRows(HeadersWritten(writeRow(h, h.writer.headers)),
                                h.writer.outputDataStructure.n, 1, <<>>))

(***************************************************************************)
(* CounterOutputDataHandler: construction.                                 *)
(***************************************************************************)
NoWriter ==
    [exists |-> FALSE, outputFile |-> <<>>, headerRows |-> 0, headers |-> <<>>,
     closed |-> FALSE, outputDataStructure |-> IntVal(0)]

\* CounterOutputDataHandler.__init__
newOutputDataHandler(incrementalWriting, trackAllEncompassing, trackAllEncompassed, countAllEncompassed) ==
    [trackAllEncompassing |-> trackAllEncompassing,
     trackAllEncompassed |-> trackAllEncompassed,
     countAllEncompassed |-> countAllEncompassed,
     outputDataStratifiers |-> <<>>,
     nontolerantAmbiguityHandling |-> FALSE,
     ignoreAmbiguityODSs |-> <<>>,
     encompassedFeaturesToWrite |-> [isSet |-> incrementalWriting = ENCOMPASSED_DATA, set |-> {}],
     encompassingFeaturesToWrite |-> [isSet |-> incrementalWriting = ENCOMPASSING_DATA, set |-> {}],
     outputDataStructure |-> IntVal(0),
     heap |-> <<>>,
     writer |-> NoWriter,
     lists |-> <<>>,
     countLog |-> <<>>,
     supLog |-> <<>>,
     err |-> IF countAllEncompassed /\ ~trackAllEncompassed THEN "AssertionError" ELSE NoError]

RECURSIVE addStratifiers(_, _, _, _)
\* setupOutputDataStratifiers: the add...Stratifier calls of the pipeline, in order
addStratifiers(h, pipeline, encompassingFeature, extraRangeRadius) ==
    IF pipeline = <<>> THEN h
    ELSE addStratifiers(addStratifier(h, Head(pipeline), encompassingFeature, extraRangeRadius),
                        Tail(pipeline), encompassingFeature, extraRangeRadius)

RECURSIVE addSuplementalInfoLoop(_, _, _)
\* the for loop of addSuplementalInfo over the dictionaries of the child of the
\* stratifier at level i
addSuplementalInfoLoop(h, i, dictionaries) ==
    IF Failed(h) \/ dictionaries = <<>> THEN h
    ELSE addSuplementalInfoLoop(
            appendSupplementalInfo(
                IF Len(h.outputDataStratifiers[i].supplementalInfoHandlers) = 1
                THEN setSupplementalInfoList(h, Head(dictionaries)) ELSE h,
                Head(dictionaries)),
            i, Tail(dictionaries))

\* OutputDataStratifier.addSuplementalInfo on the stratifier at level i: the
\* handler's lists belong to the dictionaries of the child stratifier, and the
\* last stratifier has none (childDataStratifier is None).
addSuplementalInfo(h, i, supplementalInfoHandler) ==
    IF Failed(h) THEN h
    ELSE IF ~hasChildStratifier(h, i) THEN Raise(h, "AttributeError")
    ELSE addSuplementalInfoLoop(
            [h EXCEPT !.outputDataStratifiers[i].supplementalInfoHandlers =
                          Append(@, supplementalInfoHandler)],
            i, h.outputDataStratifiers[i + 1].outputDataDictionaries)

\* CounterOutputDataHandler.addSupplementalInformationHandler, called by
\* setupOutputDataStratifiers after its add...Stratifier calls; level 0 stands for
\* a subclass that makes no such call
addSupplementalInformationHandler(h, stratificationLevel, supplementalInfoHandler) ==
    IF stratificationLevel = 0 THEN h
    ELSE IF stratificationLevel > nbStratifiers(h) THEN Raise(h, "IndexError")
    ELSE addSuplementalInfo(h, stratificationLevel, supplementalInfoHandler)

RECURSIVE addSupplementalInformationHandlers(_, _, _)
\* the addSupplementalInformationHandler calls of setupOutputDataStratifiers
addSupplementalInformationHandlers(h, stratificationLevel, supplementalInfoHandlers) ==
    IF supplementalInfoHandlers = <<>> THEN h
    ELSE addSupplementalInformationHandlers(
            addSupplementalInformationHandler(h, stratificationLevel,
                                              Head(supplementalInfoHandlers)),
            stratificationLevel, Tail(supplementalInfoHandlers))

\* customStratifyingNames = None, and a list of n entries that are all None
NoCustomNames == [isNone |-> TRUE, entries |-> <<>>]
CustomNames(n) == [isNone |-> FALSE, entries |-> [j \in 1..n |-> None]]

\* A faulty OutputDataWriter.__init__: the length of customStratifyingNames is
\* not checked.
newOutputDataWriterUnchecked(h, customStratifyingNames) ==
    LET Headers(r) == [r.h EXCEPT !.writer.headers = r.headers]
    IN Headers(getHeaders([h EXCEPT !.writer = [NoWriter EXCEPT
                                       !.exists = TRUE,
                                       !.outputDataStructure = h.outputDataStructure]]))

\* OutputDataWriter.__init__: the output file is opened, the names are checked,
\* the headers are obtained
newOutputDataWriter(h, customStratifyingNames) ==
    LET Headers(r) == [r.h EXCEPT !.writer.headers = r.headers]
    IN IF ~customStratifyingNames.isNone
          /\ Len(customStratifyingNames.entries) # nbStratifiers(h)
       THEN Raise(h, "AssertionError")
       ELSE Headers(getHeaders([h EXCEPT !.writer = [NoWriter EXCEPT
                                       !.exists = TRUE,
                                       !.outputDataStructure = h.outputDataStructure]]))

\* A faulty createOutputDataWriter: nontolerantAmbiguityHandling keeps its initial
\* value.
createOutputDataWriterKeepingTolerance(h, customStratifyingNames) ==
    IF Failed(h) THEN h
    ELSE LET Checked(h2) ==
                 IF h.encompassedFeaturesToWrite.isSet \/ h.encompassingFeaturesToWrite.isSet
                 THEN (IF nbStratifiers(h) = 0 THEN Raise(h2, "IndexError")
                       ELSE IF h.outputDataStratifiers[1].kind
                                  \notin {"EncompassedFeatureODS", "EncompassingFeatureODS"}
                       THEN Raise(h2, "AssertionError")
                       ELSE h2)
                 ELSE h2
         IN Checked(newOutputDataWriter(
                [h EXCEPT
                   !.ignoreAmbiguityODSs =
                       SeqOfInts({j \in DOMAIN h.outputDataStratifiers :
                                     h.outputDataStratifiers[j].ambiguityHandling = "ignore"})],
                customStratifyingNames))

\* CounterOutputDataHandler.createOutputDataWriter
createOutputDataWriter(h, customStratifyingNames) ==
    IF Failed(h) THEN h
    ELSE LET Checked(h2) ==
                 IF h.encompassedFeaturesToWrite.isSet \/ h.encompassingFeaturesToWrite.isSet
                 THEN (IF nbStratifiers(h) = 0 THEN Raise(h2, "IndexError")
                       ELSE IF h.outputDataStratifiers[1].kind
                                  \notin {"EncompassedFeatureODS", "EncompassingFeatureODS"}
                       THEN Raise(h2, "AssertionError")
                       ELSE h2)
                 ELSE h2
         IN Checked(newOutputDataWriter(
                [h EXCEPT
                   !.nontolerantAmbiguityHandling =
                       \E j \in DOMAIN h.outputDataStratifiers :
                           h.outputDataStratifiers[j].ambiguityHandling # "tolerate",
                   !.ignoreAmbiguityODSs =
                       SeqOfInts({j \in DOMAIN h.outputDataStratifiers :
                                     h.outputDataStratifiers[j].ambiguityHandling = "ignore"})],
                customStratifyingNames))


(***************************************************************************)
(* ThisInThatCounter.  The counter c is the record of the object's fields; *)
(* its field events is a ghost: the sequence of the calls the counter has  *)
(* made to the output data handler, each with the input lines of the      *)
(* features passed.                                                        *)
(***************************************************************************)
WaitingFeaturesLimit == 10000

\* The sort order checked by `sort -k1,1 -k2,2n -k3,3n -s -c`: chromosome, then
\* the start column, then the end column; lines with equal keys are in order.
LineKeyLess(x, y) ==
    \/ x.chrom < y.chrom
    \/ x.chrom = y.chrom /\ x.start < y.start
    \/ x.chrom = y.chrom /\ x.start = y.start /\ x.end < y.end
IsSorted(lines) == \A j \in 1..(Len(lines) - 1) : ~LineKeyLess(lines[j + 1], lines[j])

\* checkForSortedInput without the check of the encompassing features file
checkForSortedEncompassedInput(encompassedLines, encompassingLines, checkForSortedFiles) ==
    checkForSortedFiles[1] => IsSorted(encompassedLines)

\* ThisInThatCounter.checkForSortedInput: TRUE when the constructor goes on,
\* FALSE when it calls quit()
checkForSortedInput(encompassedLines, encompassingLines, checkForSortedFiles) ==
    /\ checkForSortedFiles[1] => IsSorted(encompassedLines)
    /\ checkForSortedFiles[2] => IsSorted(encompassingLines)

\* A call of the counter to its output data handler: the method (type), the input
\* lines of the features passed and, once the call is over, the number of count
\* increments, of rows written and of supplemental updates made so far.
Event(type, ed, eg) == [type |-> type, ed |-> ed.line, eg |-> eg.line, counted |-> 0, written |-> 0, supplemented |-> 0]
Log(c, event) ==
    [c EXCEPT !.events =
        Append(@, [event EXCEPT !.counted = Len(c.outputDataHandler.countLog),
                                !.written = Len(c.outputDataHandler.writer.outputFile),
                                !.supplemented = Len(c.outputDataHandler.supLog)])]

\* file.readline() followed by the construction of the feature
nextEncompassed(c) ==
    IF c.encompassedRead < Len(c.encompassedLines)
    THEN constructEncompassedFeature(c.encompassedLines[c.encompassedRead + 1],
                                     c.encompassedRead + 1)
    ELSE NoEncompassed
nextEncompassing(c) ==
    IF c.encompassingRead < Len(c.encompassingLines)
    THEN constructEncompassingFeature(c.encompassingLines[c.encompassingRead + 1],
                                      c.encompassingRead + 1)
    ELSE NoEncompassing

\* the handler with one of its methods called
WithHandler(c, h) == [c EXCEPT !.outputDataHandler = h]

\* readNextEncompassedFeature, lines 99-102: the handler after the waiting features
\* are written when more than 10000 of them wait
writeManyWaitingFeatures(c) ==
    IF /\ c.writeIncrementally = ENCOMPASSED_DATA
       /\ Cardinality(c.outputDataHandler.encompassedFeaturesToWrite.set) > WaitingFeaturesLimit
    THEN (IF IsNone(c.lastNonEncompassedFeature)
          THEN Raise(c.outputDataHandler, "TypeError")
          ELSE IF EncompassedLess(c.lastNonEncompassedFeature, c.currentEncompassedFeature)
          THEN writeWaitingFeatures(c.outputDataHandler)
          ELSE c.outputDataHandler)
    ELSE c.outputDataHandler

\* readNextEncompassedFeature, lines 94-105: the current feature, if it was never
\* encompassed, is passed to the handler as non-counted
reportNonEncompassedFeature(c) ==
    IF IsNone(c.currentEncompassedFeature)
       \/ c.isCurrentEncompassedFeatureActuallyEncompassed
    THEN c
    ELSE LET Report(h1) ==
                 IF Failed(h1) THEN WithHandler(c, h1)
                 ELSE Log([c EXCEPT
                             !.outputDataHandler =
                                 onNonCountedEncompassedFeature(
                                     h1, c.currentEncompassedFeature, NoEncompassing),
                             !.lastNonEncompassedFeature = c.currentEncompassedFeature],
                          Event("nonCounted", c.currentEncompassedFeature, NoEncompassing))
         IN Report(writeManyWaitingFeatures(c))

\* A faulty readEncompassedLine: isCurrentEncompassedFeatureActuallyEncompassed is
\* not reset for the feature read.
readEncompassedLineKeepingFlag(c) ==
    IF Failed(c.outputDataHandler) THEN c
    ELSE [c EXCEPT !.currentEncompassedFeature = nextEncompassed(c),
                   !.encompassedRead = IF @ < Len(c.encompassedLines) THEN @ + 1 ELSE @]

\* A faulty readEncompassedLine: the file is not advanced, the current feature
\* stays the current one.
readEncompassedLineAgain(c) ==
    IF Failed(c.outputDataHandler) THEN c
    ELSE [c EXCEPT !.isCurrentEncompassedFeatureActuallyEncompassed = FALSE]

\* readNextEncompassedFeature, lines 106-116: the next line is read
readEncompassedLine(c) ==
    IF Failed(c.outputDataHandler) THEN c
    ELSE [c EXCEPT !.isCurrentEncompassedFeatureActuallyEncompassed = FALSE,
                   !.currentEncompassedFeature = nextEncompassed(c),
                   !.encompassedRead = IF @ < Len(c.encompassedLines) THEN @ + 1 ELSE @]

\* ThisInThatCounter.readNextEncompassedFeature
readNextEncompassedFeature(c) ==
    IF Failed(c.outputDataHandler) THEN c
    ELSE readEncompassedLine(reportNonEncompassedFeature(c))

\* A faulty isEncompassedFeatureWithinEncompassingFeature: the padded end of the
\* encompassing feature is excluded.
isWithinExcludingEnd(c, encompassedFeature, encompassingFeature) ==
    /\ encompassedFeature.position
          >= encompassingFeature.startPos - 2 * c.encompassingFeatureExtraRadius
    /\ encompassedFeature.position
          < encompassingFeature.endPos + 2 * c.encompassingFeatureExtraRadius

\* ThisInThatCounter.isEncompassedFeatureWithinEncompassingFeature
\* (the radius is in bases, the positions in half-bases)
isEncompassedFeatureWithinEncompassingFeature(c, encompassedFeature, encompassingFeature) ==
    /\ encompassedFeature.position
          >= encompassingFeature.startPos - 2 * c.encompassingFeatureExtraRadius
    /\ encompassedFeature.position
          <= encompassingFeature.endPos + 2 * c.encompassingFeatureExtraRadius

\* ThisInThatCounter.isEncompassedFeaturePastEncompassingFeature
isEncompassedFeaturePastEncompassingFeature(c) ==
    \/ IsNone(c.currentEncompassedFeature)
    \/ c.currentEncompassedFeature.position
          > c.currentEncompassingFeature.endPos + 2 * c.encompassingFeatureExtraRadius
    \/ c.currentEncompassedFeature.chromosome # c.currentEncompassingFeature.chromosome

\* A faulty isExitingEncompassment: the chromosomes are not compared.
isExitingByPositionAlone(c, encompassedFeature) ==
    encompassedFeature.position
        < c.currentEncompassingFeature.startPos - 2 * c.encompassingFeatureExtraRadius

\* the condition of ThisInThatCounter.isExitingEncompassment
isExitingEncompassment(c, encompassedFeature) ==
    \/ encompassedFeature.position
          < c.currentEncompassingFeature.startPos - 2 * c.encompassingFeatureExtraRadius
    \/ encompassedFeature.chromosome # c.currentEncompassingFeature.chromosome

RECURSIVE exitLoop(_, _, _)
\* lines 262-267: every listed feature that is exiting (all of them when the
\* encompassing features are exhausted) is passed to the handler with the
\* previous encompassing feature; kept is the list of the features that stay
exitLoop(c, features, kept) ==
    IF Failed(c.outputDataHandler) THEN c
    ELSE IF features = <<>> THEN [c EXCEPT !.confirmedEncompassedFeatures = kept]
    ELSE IF IsNone(c.currentEncompassingFeature) \/ isExitingEncompassment(c, Head(features))
    THEN exitLoop(
            Log(WithHandler(c, onEncompassedFeatureInEncompassingFeature(
                                  c.outputDataHandler, Head(features),
                                  c.previousEncompassingFeature, TRUE).h),
                Event("exit", Head(features), c.previousEncompassingFeature)),
            Tail(features), kept)
    ELSE exitLoop(c, Tail(features), Append(kept, Head(features)))

RECURSIVE reprocessLoop(_, _)
\* lines 270-272: the remaining features within the new encompassing feature
reprocessLoop(c, j) ==
    IF Failed(c.outputDataHandler) \/ j > Len(c.confirmedEncompassedFeatures) THEN c
    ELSE IF isEncompassedFeatureWithinEncompassingFeature(
                c, c.confirmedEncompassedFeatures[j], c.currentEncompassingFeature)
    THEN LET Processed(r) ==
                 Log([c EXCEPT !.outputDataHandler = r.h,
                               !.confirmedEncompassedFeatures[j] = r.ed],
                     Event("overlap", c.confirmedEncompassedFeatures[j],
                           c.currentEncompassingFeature))
         IN reprocessLoop(
                Processed(onEncompassedFeatureInEncompassingFeature(
                              c.outputDataHandler, c.confirmedEncompassedFeatures[j],
                              c.currentEncompassingFeature, FALSE)),
                j + 1)
    ELSE reprocessLoop(c, j + 1)

\* if self.writeIncrementally != 0: self.outputDataHandler.writeWaitingFeatures()
writeIfIncremental(c) ==
    IF ~Failed(c.outputDataHandler) /\ c.writeIncrementally # 0
    THEN WithHandler(c, writeWaitingFeatures(c.outputDataHandler))
    ELSE c

\* ThisInThatCounter.checkConfirmedEncompassedFeatures
checkConfirmedEncompassedFeatures(c) ==
    writeIfIncremental(reprocessLoop(exitLoop(c, c.confirmedEncompassedFeatures, <<>>), 1))

\* readNextEncompassingFeature, lines 135-148: the next line is read and a new
\* feature that is not the first is passed to the handler
readEncompassingLine(c) ==
    LET Read(current) ==
            IF ~IsNone(current) /\ ~IsNone(c.currentEncompassingFeature)
            THEN Log([c EXCEPT
                        !.previousEncompassingFeature = c.currentEncompassingFeature,
                        !.currentEncompassingFeature = current,
                        !.encompassingRead = @ + 1,
                        !.outputDataHandler = onNewEncompassingFeature(@, current)],
                     Event("new", NoEncompassed, current))
            ELSE [c EXCEPT
                    !.previousEncompassingFeature = c.currentEncompassingFeature,
                    !.currentEncompassingFeature = current,
                    !.encompassingRead = IF IsNone(current) THEN @ ELSE @ + 1]
    IN Read(nextEncompassing(c))

\* ThisInThatCounter.readNextEncompassingFeature
readNextEncompassingFeature(c) ==
    IF Failed(c.outputDataHandler) THEN c
    ELSE IF ~IsNone(c.currentEncompassingFeature)
    THEN checkConfirmedEncompassedFeatures(readEncompassingLine(c))
    ELSE readEncompassingLine(c)

(***************************************************************************)
(* The runs.  A run is a subclass of ThisInThatCounter: its constructor    *)
(* arguments and its setUpOutputDataHandler (the handler's switches and    *)
(* the stratifiers added, in order).                                       *)
(***************************************************************************)
\* the default outputName of the add...Stratifier methods
defaultOutputName(kind) ==
    CASE kind = "StrandComparisonODS" -> "Strand_Comparison"
      [] kind = "RelativePosODS" -> "Relative_Pos"
      [] kind = "EncompassingFeatureODS" -> "Encompassing_Feature"
      [] kind = "EncompassedFeatureODS" -> "Encompassed_Feature"
      [] OTHER -> NoOutputName

\* an add...Stratifier call with the default output name
Stratifier(kind, ambiguityHandling) ==
    [kind |-> kind, ambiguityHandling |-> ambiguityHandling, centerRelativePos |-> TRUE,
     outputName |-> defaultOutputName(kind)]
\* addPlaceholderStratifier(outputName = "Counts")
Placeholder(outputName) ==
    [Stratifier("PlaceholderODS", "tolerate") EXCEPT !.outputName = outputName]

\* SimpleColumnSupInfoHandler with its default arguments
DefaultSupInfoHandler == SupplementalInformationHandler("Col_Data", TRUE, FALSE)

Run(pipeline, writeIncrementally, trackAllEncompassing, trackAllEncompassed, countAllEncompassed, encompassingFeatureExtraRadius) ==
    [pipeline |-> pipeline, writeIncrementally |-> writeIncrementally,
     supplementalInfoLevel |-> 0, supplementalInfoHandlers |-> <<DefaultSupInfoHandler>>,
     customStratifyingNames |-> NoCustomNames,
     trackAllEncompassing |-> trackAllEncompassing,
     trackAllEncompassed |-> trackAllEncompassed,
     countAllEncompassed |-> countAllEncompassed,
     encompassingFeatureExtraRadius |-> encompassingFeatureExtraRadius]

VARIABLES
    params,     \* the arguments of the constructor and the set-up of the subclass
    counter,    \* the ThisInThatCounter object, with its output data handler
    pc          \* the position in __init__ and count()

vars == <<params, counter, pc>>

NoHandler == newOutputDataHandler(0, FALSE, FALSE, FALSE)

\* the object when __init__ is entered
NewCounter(p) ==
    [encompassedLines |-> p.encompassedLines,
     encompassingLines |-> p.encompassingLines,
     encompassedRead |-> 0,
     encompassingRead |-> 0,
     filesOpen |-> FALSE,
     writeIncrementally |-> p.run.writeIncrementally,
     encompassingFeatureExtraRadius |-> p.run.encompassingFeatureExtraRadius,
     currentEncompassedFeature |-> NoEncompassed,
     currentEncompassingFeature |-> NoEncompassing,
     previousEncompassingFeature |-> NoEncompassing,
     lastNonEncompassedFeature |-> NoEncompassed,
     isCurrentEncompassedFeatureActuallyEncompassed |-> FALSE,
     confirmedEncompassedFeatures |-> <<>>,
     outputDataHandler |-> NoHandler,
     events |-> <<>>]

\* setUpOutputDataHandler: initOutputDataHandler, setupOutputDataStratifiers,
\* setupOutputDataWriter
setUpOutputDataHandler(c, run) ==
    [c EXCEPT !.outputDataHandler =
        createOutputDataWriter(
            addSupplementalInformationHandlers(
                addStratifiers(
                    newOutputDataHandler(run.writeIncrementally, run.trackAllEncompassing,
                                         run.trackAllEncompassed, run.countAllEncompassed),
                    run.pipeline, c.currentEncompassingFeature,
                    c.encompassingFeatureExtraRadius),
                run.supplementalInfoLevel, run.supplementalInfoHandlers),
            run.customStratifyingNames)]

\* The lines an input file is made of.  An encompassed feature spans one or
\* two bases and an encompassing feature any range within 0..MaxPos; the last
\* chromosome holds the one-base feature at 0 only; the encompassed features are
\* on the + strand, and the strand of an encompassing feature varies when a
\* stratifier reads it.
EncompassedLineUniverse ==
    {[chrom |-> ch, start |-> st, end |-> st + len, strand |-> "+"] :
        ch \in Chromosomes, st \in 0..MaxPos, len \in 1..2}
EncompassingLineUniverse(strands) ==
    {l \in [chrom : Chromosomes, start : 0..MaxPos, end : 1..(MaxPos + 1), strand : strands] :
        l.start < l.end}
OnLastChromosome(l) == l.chrom = MaxChromosome => (l.start = 0 /\ l.end = 1)

\* the files of at most n lines
FilesUpTo(universe, n) ==
    UNION {[1..k -> {l \in universe : OnLastChromosome(l)}] : k \in 0..n}
SortedFilesUpTo(universe, n) == {f \in FilesUpTo(universe, n) : IsSorted(f)}

Tolerate(kind) == Stratifier(kind, "tolerate")
\* SimpleEncompassingColStrODS(tolerate, ..., outputName, colIndex = 0)
ColStr(outputName) ==
    [Tolerate("SimpleEncompassingColStrODS") EXCEPT !.outputName = outputName]
HasKind(run, kind) == \E j \in DOMAIN run.pipeline : run.pipeline[j].kind = kind

\* the base class: no stratifier
BaseRun == Run(<<>>, 0, FALSE, FALSE, FALSE, 0)

\* the subclasses run, after the repository's templates and tests
Runs ==
    {BaseRun, Run(<<>>, 0, FALSE, FALSE, FALSE, 1)}
    \cup {Run(<<Stratifier("StrandComparisonODS", a)>>, 0, FALSE, FALSE, FALSE, 0) :
            a \in {"tolerate", "record", "ignore"}}
    \cup {Run(<<Stratifier("StrandComparisonODS", a), Placeholder("Counts")>>,
              0, FALSE, FALSE, FALSE, 0) : a \in {"record", "ignore"}}
    \cup {Run(<<Tolerate("EncompassedFeatureODS"), Placeholder("Counts")>>,
              w, FALSE, t[1], t[2], 0) :
            w \in {0, ENCOMPASSED_DATA},
            t \in {<<FALSE, FALSE>>, <<TRUE, FALSE>>, <<TRUE, TRUE>>}}
    \cup {Run(<<Tolerate("EncompassedFeatureODS"), Placeholder(NoOutputName)>>,
              w, FALSE, TRUE, FALSE, 0) : w \in {0, ENCOMPASSED_DATA}}
    \cup {Run(<<Tolerate("EncompassingFeatureODS"), Placeholder("Counts")>>,
              w, TRUE, FALSE, FALSE, 0) : w \in {0, ENCOMPASSING_DATA}}
    \cup {Run(<<Tolerate("RelativePosODS")>>, 0, FALSE, FALSE, FALSE, r) : r \in 0..1}
    \cup {Run(<<Tolerate("EncompassedFeatureODS")>>, 0, FALSE, FALSE, FALSE, 0),
          Run(<<Stratifier("StrandComparisonODS", "record"),
                Stratifier("RelativePosODS", "ignore")>>, 0, FALSE, FALSE, FALSE, 0),
          Run(<<Tolerate("EncompassedFeatureODS"),
                Stratifier("StrandComparisonODS", "record")>>, 0, FALSE, TRUE, TRUE, 0)}
    \cup {Run(<<ColStr("Chromosome"), Placeholder("Counts")>>, 0, FALSE, FALSE, FALSE, 0)}
    \cup {[Run(<<Tolerate("StrandComparisonODS"), Placeholder("Counts")>>,
               0, FALSE, FALSE, FALSE, 0)
              EXCEPT !.customStratifyingNames = CustomNames(n)] : n \in 1..3}
    \cup {[Run(<<Tolerate("StrandComparisonODS"), Placeholder("Counts")>>,
               0, FALSE, FALSE, FALSE, 0)
              EXCEPT !.supplementalInfoLevel = 2]}

\* the strands of the encompassing features explored with a run
StrandsFor(run) == IF HasKind(run, "StrandComparisonODS") THEN Strands ELSE {"+"}

\* One run over larger coordinates: single-base encompassed features at 100 and
\* 200 of chr1, the encompassing feature chr1 50 150 +, no padding, a centred
\* relative-position stratifier built from the first encompassing feature.
CenteredRelativePosScenario ==
    [run |-> Run(<<Tolerate("RelativePosODS")>>, 0, FALSE, FALSE, FALSE, 0),
     encompassedLines |-> <<[chrom |-> 1, start |-> 100, end |-> 101, strand |-> "+"],
                            [chrom |-> 1, start |-> 200, end |-> 201, strand |-> "+"]>>,
     encompassingLines |-> <<[chrom |-> 1, start |-> 50, end |-> 150, strand |-> "+"]>>,
     checkForSortedFiles |-> <<TRUE, TRUE>>]

\* A run starts from a subclass, two input files and the checkForSortedFiles
\* argument.  Unsorted files and a disabled sort check are explored with the
\* base class.
Init ==
    /\ \/ \E run \in Runs :
          \E checkForSortedFiles \in
               IF run = BaseRun THEN {TRUE, FALSE} \X {TRUE, FALSE} ELSE {<<TRUE, TRUE>>} :
          \E encompassedLines \in
               IF run = BaseRun THEN FilesUpTo(EncompassedLineUniverse, MaxLines)
               ELSE SortedFilesUpTo(EncompassedLineUniverse, MaxLines) :
          \E encompassingLines \in
               IF run = BaseRun THEN FilesUpTo(EncompassingLineUniverse(StrandsFor(run)), MaxLines)
               ELSE SortedFilesUpTo(EncompassingLineUniverse(StrandsFor(run)), MaxLines) :
             params = [run |-> run,
                       encompassedLines |-> encompassedLines,
                       encompassingLines |-> encompassingLines,
                       checkForSortedFiles |-> checkForSortedFiles]
       \/ params = CenteredRelativePosScenario
    /\ counter = NewCounter(params)
    /\ pc = "start"

\* where control goes after a step: "crashed" when the step raised
Goto(c, loc) == IF Failed(c.outputDataHandler) THEN "crashed" ELSE loc

\* ThisInThatCounter.__init__, the sort check failing: quit() before any file is
\* opened
QuitUnsorted ==
    /\ pc = "start"
    /\ ~checkForSortedInput(params.encompassedLines, params.encompassingLines,
                            params.checkForSortedFiles)
    /\ pc' = "quit"
    /\ UNCHANGED <<params, counter>>

\* ThisInThatCounter.__init__, line 59
firstEncompassingFeature(c) ==
    IF Failed(c.outputDataHandler) THEN c
    ELSE Log(WithHandler(c, onNewEncompassingFeature(c.outputDataHandler,
                                                     c.currentEncompassingFeature)),
             Event("new", NoEncompassed, c.currentEncompassingFeature))

\* ThisInThatCounter.__init__ after the sort check
construct(c, run) ==
    firstEncompassingFeature(
        setUpOutputDataHandler(
            readNextEncompassingFeature(
                readNextEncompassedFeature([c EXCEPT !.filesOpen = TRUE])),
            run))

\* ThisInThatCounter.__init__, the sort check passing
Construct ==
    /\ pc = "start"
    /\ checkForSortedInput(params.encompassedLines, params.encompassingLines,
                           params.checkForSortedFiles)
    /\ counter' = construct(counter, params.run)
    /\ pc' = Goto(counter', "count")
    /\ UNCHANGED params

\* count(), lines 284-286
StartCount ==
    /\ pc = "count"
    /\ pc' = IF IsNone(counter.currentEncompassedFeature)
                \/ IsNone(counter.currentEncompassingFeature)
             THEN "outer" ELSE "reconcile"
    /\ UNCHANGED <<params, counter>>

\* the loop condition of reconcileChromosomes
chromosomesDiffer(c) ==
    /\ ~IsNone(c.currentEncompassedFeature)
    /\ ~IsNone(c.currentEncompassingFeature)
    /\ c.currentEncompassedFeature.chromosome # c.currentEncompassingFeature.chromosome

\* reconcileChromosomes, one iteration reading the encompassed file
ReconcileEncompassed ==
    /\ pc = "reconcile"
    /\ chromosomesDiffer(counter)
    /\ counter.currentEncompassedFeature.chromosome
          < counter.currentEncompassingFeature.chromosome
    /\ counter' = readNextEncompassedFeature(counter)
    /\ pc' = Goto(counter', "reconcile")
    /\ UNCHANGED params

\* reconcileChromosomes, one iteration reading the encompassing file
ReconcileEncompassing ==
    /\ pc = "reconcile"
    /\ chromosomesDiffer(counter)
    /\ ~(counter.currentEncompassedFeature.chromosome
            < counter.currentEncompassingFeature.chromosome)
    /\ counter' = readNextEncompassingFeature(counter)
    /\ pc' = Goto(counter', "reconcile")
    /\ UNCHANGED params

\* reconcileChromosomes returning
ReconcileDone ==
    /\ pc = "reconcile"
    /\ ~chromosomesDiffer(counter)
    /\ pc' = "outer"
    /\ UNCHANGED <<params, counter>>

\* count(), line 291: the test of the outer loop
OuterTest ==
    /\ pc = "outer"
    /\ pc' = IF IsNone(counter.currentEncompassingFeature) THEN "drain" ELSE "inner"
    /\ UNCHANGED <<params, counter>>

\* count(), lines 297-300: the current encompassed feature, if it is within the
\* current encompassing feature, is passed to the handler and listed
confirmEncompassment(c) ==
    IF isEncompassedFeatureWithinEncompassingFeature(
           c, c.currentEncompassedFeature, c.currentEncompassingFeature)
    THEN LET Confirmed(r) ==
                 Log([c EXCEPT
                        !.outputDataHandler = r.h,
                        !.confirmedEncompassedFeatures = Append(@, r.ed),
                        !.isCurrentEncompassedFeatureActuallyEncompassed = TRUE],
                     Event("overlap", c.currentEncompassedFeature,
                           c.currentEncompassingFeature))
         IN Confirmed(onEncompassedFeatureInEncompassingFeature(
                          c.outputDataHandler, c.currentEncompassedFeature,
                          c.currentEncompassingFeature, FALSE))
    ELSE c

\* count(), lines 294-303: one iteration of the inner loop
InnerStep ==
    /\ pc = "inner"
    /\ ~isEncompassedFeaturePastEncompassingFeature(counter)
    /\ counter' = readNextEncompassedFeature(confirmEncompassment(counter))
    /\ pc' = Goto(counter', "inner")
    /\ UNCHANGED params

\* count(), lines 306-309: the inner loop is over, the next encompassing feature
\* is read
NextEncompassing ==
    /\ pc = "inner"
    /\ isEncompassedFeaturePastEncompassingFeature(counter)
    /\ counter' = readNextEncompassingFeature(counter)
    /\ pc' = Goto(counter', "reconcile")
    /\ UNCHANGED params

\* count(), line 312: one remaining encompassed feature is read
DrainStep ==
    /\ pc = "drain"
    /\ ~IsNone(counter.currentEncompassedFeature)
    /\ counter' = readNextEncompassedFeature(counter)
    /\ pc' = Goto(counter', "drain")
    /\ UNCHANGED params

\* count(), lines 316-321: the input files are closed and the output is written,
\* or its incremental writing finished
closeAndWrite(c) ==
    IF Failed(c.outputDataHandler) THEN c
    ELSE [c EXCEPT !.filesOpen = FALSE,
                   !.outputDataHandler = IF c.writeIncrementally # 0
                                         THEN finishIndividualFeatureWriting(@)
                                         ELSE writeResults(@)]

\* count(), lines 313-321: the last incremental write, the input files closed,
\* the output written or finished
Finish ==
    /\ pc = "drain"
    /\ IsNone(counter.currentEncompassedFeature)
    /\ counter' = closeAndWrite(writeIfIncremental(counter))
    /\ pc' = Goto(counter', "done")
    /\ UNCHANGED params

\* ThisInThatCounter.__init__ followed by count(), one step from location loc
\* with the object c: the location and the object after the step
AfterStep(c, loc) == [pc |-> Goto(c, loc), counter |-> c]
step(loc, c, p) ==
    IF loc = "start"
    THEN IF checkForSortedInput(p.encompassedLines, p.encompassingLines,
                                p.checkForSortedFiles)
         THEN AfterStep(construct(c, p.run), "count")
         ELSE [pc |-> "quit", counter |-> c]
    ELSE IF loc = "count"
    THEN [pc |-> IF IsNone(c.currentEncompassedFeature)
                    \/ IsNone(c.currentEncompassingFeature)
                 THEN "outer" ELSE "reconcile",
          counter |-> c]
    ELSE IF loc = "reconcile"
    THEN IF ~chromosomesDiffer(c) THEN [pc |-> "outer", counter |-> c]
         ELSE IF c.currentEncompassedFeature.chromosome
                    < c.currentEncompassingFeature.chromosome
         THEN AfterStep(readNextEncompassedFeature(c), "reconcile")
         ELSE AfterStep(readNextEncompassingFeature(c), "reconcile")
    ELSE IF loc = "outer"
    THEN [pc |-> IF IsNone(c.currentEncompassingFeature) THEN "drain" ELSE "inner",
          counter |-> c]
    ELSE IF loc = "inner"
    THEN IF isEncompassedFeaturePastEncompassingFeature(c)
         THEN AfterStep(readNextEncompassingFeature(c), "reconcile")
         ELSE AfterStep(readNextEncompassedFeature(confirmEncompassment(c)), "inner")
    ELSE IF loc = "drain"
    THEN IF IsNone(c.currentEncompassedFeature)
         THEN AfterStep(closeAndWrite(writeIfIncremental(c)), "done")
         ELSE AfterStep(readNextEncompassedFeature(c), "drain")
    ELSE [pc |-> loc, counter |-> c]

RECURSIVE runFrom(_, _, _)
\* the run from location loc to its end
runFrom(loc, c, p) ==
    IF loc \in {"done", "crashed", "quit"} THEN [pc |-> loc, counter |-> c]
    ELSE LET Continue(r) == runFrom(r.pc, r.counter, p)
         IN Continue(step(loc, c, p))

\* a whole run of the construction and count() with parameters p
run(p) == runFrom("start", NewCounter(p), p)

Next ==
    \/ QuitUnsorted
    \/ Construct
    \/ StartCount
    \/ ReconcileEncompassed
    \/ ReconcileEncompassing
    \/ ReconcileDone
    \/ OuterTest
    \/ InnerStep
    \/ NextEncompassing
    \/ DrainStep
    \/ Finish


Spec == Init /\ [][Next]_vars

(***************************************************************************)
(* Termination.  The program is one thread that always takes its next      *)
(* step: weak fairness of Next.  A step of Next is possible exactly when    *)
(* the run is not over (every location before the end has a statement to   *)
(* execute, and every statement changes the state), so the fairness        *)
(* condition WF_vars(Next), which is                                        *)
(*     []<>(~ENABLED <<Next>>_vars) \/ []<><<Next>>_vars,                   *)
(* is stated with the locations of a finished run in place of              *)
(* ~ENABLED <<Next>>_vars.  The runs are those of the base class on every   *)
(* pair of files, sorted or not, with the sort check on or off.            *)
(***************************************************************************)
\* count() returned, an exception ended the run, or quit() was called
RunIsOver == pc \in {"done", "crashed", "quit"}

\* the thread takes a step whenever it has one
AlwaysTakesNextStep == []<>RunIsOver \/ []<><<Next>>_vars

TerminationInit ==
    /\ \E checkForSortedFiles \in {<<TRUE, TRUE>>, <<FALSE, FALSE>>} :
       \E encompassedLines \in FilesUpTo(EncompassedLineUniverse, MaxLines) :
       \E encompassingLines \in FilesUpTo(EncompassingLineUniverse({"+"}), MaxLines) :
          params = [run |-> BaseRun,
                    encompassedLines |-> encompassedLines,
                    encompassingLines |-> encompassingLines,
                    checkForSortedFiles |-> checkForSortedFiles]
    /\ counter = NewCounter(params)
    /\ pc = "start"

TerminationSpec == TerminationInit /\ [][Next]_vars /\ AlwaysTakesNextStep

(***************************************************************************)
(* Runs with supplemental information.  Two handlers are attached to the  *)
(* stratifiers above the last one: one that updates until exit and one    *)
(* that updates on count, in either order.  The input files are those of  *)
(* the counter's specification; unsorted files are explored with the      *)
(* first run.                                                              *)
(***************************************************************************)
UntilExitHandler == SupplementalInformationHandler("Until_Exit", TRUE, FALSE)
OnCountHandler == SupplementalInformationHandler("On_Count", FALSE, TRUE)

\* the run with the handlers attached to the stratifier of the level
WithSupplementalInfo(plainRun, stratificationLevel, supplementalInfoHandlers) ==
    [plainRun EXCEPT !.supplementalInfoLevel = stratificationLevel,
                !.supplementalInfoHandlers = supplementalInfoHandlers]

StrandComparisonSupplementalRun ==
    WithSupplementalInfo(
        Run(<<Tolerate("StrandComparisonODS"), Placeholder("Counts")>>, 0, FALSE, FALSE, FALSE, 0),
        1, <<UntilExitHandler, OnCountHandler>>)

SupplementalRuns ==
    {StrandComparisonSupplementalRun}
    \cup {WithSupplementalInfo(
              Run(<<Stratifier("StrandComparisonODS", "record"), Placeholder("Counts")>>,
                  0, FALSE, FALSE, FALSE, 0),
              1, <<OnCountHandler, UntilExitHandler>>)}
    \cup {WithSupplementalInfo(
              Run(<<Tolerate("EncompassedFeatureODS"), Placeholder("Counts")>>,
                  w, FALSE, t[1], t[2], 0),
              1, <<UntilExitHandler, OnCountHandler>>) :
            w \in {0, ENCOMPASSED_DATA}, t \in {<<FALSE, FALSE>>, <<TRUE, TRUE>>}}
    \cup {WithSupplementalInfo(
              Run(<<Tolerate("EncompassingFeatureODS"), Placeholder("Counts")>>,
                  w, TRUE, FALSE, FALSE, 0),
              1, <<UntilExitHandler, OnCountHandler>>) : w \in {0, ENCOMPASSING_DATA}}
    \cup {WithSupplementalInfo(
              Run(<<Tolerate("EncompassedFeatureODS"), Tolerate("StrandComparisonODS"),
                    Placeholder("Counts")>>, 0, FALSE, FALSE, FALSE, 0),
              2, <<OnCountHandler, UntilExitHandler>>)}

SupplementalInit ==
    /\ \E supRun \in SupplementalRuns :
       \E encompassedLines \in
            IF supRun = StrandComparisonSupplementalRun
            THEN FilesUpTo(EncompassedLineUniverse, MaxLines)
            ELSE SortedFilesUpTo(EncompassedLineUniverse, MaxLines) :
       \E encompassingLines \in
            SortedFilesUpTo(EncompassingLineUniverse(StrandsFor(supRun)), MaxLines) :
          params = [run |-> supRun,
                    encompassedLines |-> encompassedLines,
                    encompassingLines |-> encompassingLines,
                    checkForSortedFiles |-> <<TRUE, TRUE>>]
    /\ counter = NewCounter(params)
    /\ pc = "start"

SupplementalSpec == SupplementalInit /\ [][Next]_vars

(***************************************************************************)
(* FeatureFractionODS.  Python floats are IEEE-754 binary64 numbers: a     *)
(* positive float is m * 2^e with a mantissa m of 53 bits, kept here as    *)
(* two limbs <<hi, lo>> (m = hi * Limb + lo), and a quotient is rounded to *)
(* the nearest such number, ties to the even mantissa.                     *)
(***************************************************************************)
MaxLength == 18         \* encompassing features span 1..MaxLength bases
MaxFractionNum == 14    \* fractionNum ranges over 1..MaxFractionNum
MaxFlankingBinSize == 2
MaxFlankingBinNum == 2

Limb == 2^27
Wide(n) == <<n \div Limb, n % Limb>>
wideLess(a, b) == a[1] < b[1] \/ (a[1] = b[1] /\ a[2] < b[2])
wideDouble(a) == <<2 * a[1] + (2 * a[2]) \div Limb, (2 * a[2]) % Limb>>
wideSub(a, b) ==
    IF a[2] >= b[2] THEN <<a[1] - b[1], a[2] - b[2]>>
    ELSE <<a[1] - b[1] - 1, a[2] + Limb - b[2]>>
wideSucc(a) == IF a[2] + 1 = Limb THEN <<a[1] + 1, 0>> ELSE <<a[1], a[2] + 1>>

Float(m, e) == [m |-> m, e |-> e]
\* the float of a number of half-bases h >= 0, that is, h / 2
floatOfHalves(h) == Float(Wide(h), -1)
floatOfInt(n) == Float(Wide(n), 0)

\* round to nearest, ties to even: q holds the first 53 bits of the
\* quotient, r < d the remainder left after them
roundQuotient(q, r, d, e) ==
    IF wideLess(d, wideDouble(r)) \/ (wideDouble(r) = d /\ q[2] % 2 = 1)
    THEN IF wideSucc(q) = <<2^26, 0>> THEN Float(<<2^25, 0>>, e + 1)
         ELSE Float(wideSucc(q), e)
    ELSE Float(q, e)

\* long division, one bit of the quotient at a time: s.r < 2 * s.d holds the
\* remainder, s.q the bits found so far, s.n the number of bits to go
DivisionStates == [r : Int \X Int, d : Int \X Int, q : Int \X Int, n : Int, e : Int]
Division(r, d, q, n, e) == [r |-> r, d |-> d, q |-> q, n |-> n, e |-> e]
divideBits[s \in DivisionStates] ==
    IF wideLess(s.r, s.d)
    THEN IF s.n = 1 THEN roundQuotient(wideDouble(s.q), s.r, s.d, s.e)
         ELSE divideBits[Division(wideDouble(s.r), s.d, wideDouble(s.q), s.n - 1, s.e)]
    ELSE IF s.n = 1
         THEN roundQuotient(wideSucc(wideDouble(s.q)), wideSub(s.r, s.d), s.d, s.e)
         ELSE divideBits[Division(wideDouble(wideSub(s.r, s.d)), s.d,
                                 wideSucc(wideDouble(s.q)), s.n - 1, s.e)]

\* a / b * 2^e for a, b > 0: scale until b <= a < 2b, then divide
alignedDivide[s \in DivisionStates] ==
    IF wideLess(s.r, s.d) THEN alignedDivide[Division(wideDouble(s.r), s.d, s.q, s.n, s.e - 1)]
    ELSE IF ~wideLess(s.r, wideDouble(s.d))
    THEN alignedDivide[Division(s.r, wideDouble(s.d), s.q, s.n, s.e + 1)]
    ELSE divideBits[Division(s.r, s.d, s.q, s.n, s.e - (s.n - 1))]

\* float.__truediv__ for x >= 0 and y > 0
floatDiv(x, y) ==
    IF x.m = <<0, 0>> THEN x ELSE alignedDivide[Division(x.m, y.m, <<0, 0>>, 53, x.e - y.e)]

\* int(x) for a float x >= 0 below 2^30: the fraction is cut off
floatToInt(x) ==
    IF x.m = <<0, 0>> \/ x.e <= -54 THEN 0
    ELSE IF x.e <= -27 THEN x.m[1] \div 2^((0 - x.e) - 27)
    ELSE IF x.e < 0 THEN x.m[1] * 2^(27 + x.e) + x.m[2] \div 2^(0 - x.e)
    ELSE (x.m[1] * Limb + x.m[2]) * 2^(x.e)

\* int(h / 2 / y) for a number of half-bases h of either sign:
\* the division is symmetric in the sign and int() truncates towards zero
intOfQuotient(h, y) ==
    IF h < 0 THEN 0 - floatToInt(floatDiv(floatOfHalves(0 - h), y))
    ELSE floatToInt(floatDiv(floatOfHalves(h), y))

\* FeatureFractionODS.__init__: the stratifier and its key space
FeatureFractionODS(fractionNum, flankingBinSize, flankingBinNum) ==
    [fractionNum |-> fractionNum,
     flankingBinSize |-> flankingBinSize,
     flankingBinNum |-> flankingBinNum,
     keys |-> (1..fractionNum)
                  \cup {0 - i : i \in 0..(flankingBinNum - 1)}
                  \cup {fractionNum + 1 + i : i \in 0..(flankingBinNum - 1)}]

\* EncompassingData.getLength, in half-bases
getLength(eg) == eg.endPos - eg.startPos + 2

nonFlankingSizeOf(ods, eg) ==
    getLength(eg) - 2 * (2 * ods.flankingBinSize * ods.flankingBinNum)

\* the relative position after the adjustment for the flanking bins, in half-bases
relativePosOf(ods, ed, eg) ==
    (IF eg.strand = "+" THEN ed.position - eg.startPos ELSE eg.endPos - ed.position)
        - 2 * ods.flankingBinSize * ods.flankingBinNum

binSizeOf(ods, eg) ==
    floatDiv(floatOfHalves(nonFlankingSizeOf(ods, eg)), floatOfInt(ods.fractionNum))

FractionResult(bin, err) == [bin |-> bin, err |-> err]

\* A faulty updateConfirmedEncompassedFeature: the negative relative position is
\* divided as it is, without the shift by one base.
featureFractionBinUnshifted(ods, ed, eg) ==
    IF ods.fractionNum = 0 THEN FractionResult(0, "ZeroDivisionError")
    ELSE IF nonFlankingSizeOf(ods, eg) <= 0 THEN FractionResult(0, "AssertionError")
    ELSE IF relativePosOf(ods, ed, eg) < 0
    THEN IF ods.flankingBinSize = 0 THEN FractionResult(0, "ZeroDivisionError")
         ELSE FractionResult(intOfQuotient(relativePosOf(ods, ed, eg),
                                           floatOfInt(ods.flankingBinSize)), NoError)
    ELSE IF relativePosOf(ods, ed, eg) >= nonFlankingSizeOf(ods, eg)
    THEN IF ods.flankingBinSize = 0 THEN FractionResult(0, "ZeroDivisionError")
         ELSE FractionResult(intOfQuotient(relativePosOf(ods, ed, eg) - nonFlankingSizeOf(ods, eg),
                                           floatOfInt(ods.flankingBinSize))
                                 + ods.fractionNum + 1, NoError)
    ELSE FractionResult(intOfQuotient(relativePosOf(ods, ed, eg), binSizeOf(ods, eg)) + 1,
                        NoError)

\* FeatureFractionODS.updateConfirmedEncompassedFeature: the bin handed to
\* updateStratifierData, or the exception raised on the way
featureFractionBin(ods, ed, eg) ==
    IF ods.fractionNum = 0 THEN FractionResult(0, "ZeroDivisionError")
    ELSE IF nonFlankingSizeOf(ods, eg) <= 0 THEN FractionResult(0, "AssertionError")
    ELSE IF relativePosOf(ods, ed, eg) < 0
    THEN IF ods.flankingBinSize = 0 THEN FractionResult(0, "ZeroDivisionError")
         ELSE FractionResult(intOfQuotient(relativePosOf(ods, ed, eg) + 2,
                                           floatOfInt(ods.flankingBinSize)), NoError)
    ELSE IF relativePosOf(ods, ed, eg) >= nonFlankingSizeOf(ods, eg)
    THEN IF ods.flankingBinSize = 0 THEN FractionResult(0, "ZeroDivisionError")
         ELSE FractionResult(intOfQuotient(relativePosOf(ods, ed, eg) - nonFlankingSizeOf(ods, eg),
                                           floatOfInt(ods.flankingBinSize))
                                 + ods.fractionNum + 1, NoError)
    ELSE FractionResult(intOfQuotient(relativePosOf(ods, ed, eg), binSizeOf(ods, eg)) + 1,
                        NoError)

\* the arguments of one application: an encompassing line of 1..MaxLength
\* bases, an encompassed line of one or two bases inside it, and the stratifier
FeatureFractionArguments ==
    {[encompassingLine |-> [chrom |-> 1, start |-> 0, end |-> length, strand |-> strand],
      encompassedLine |-> [chrom |-> 1, start |-> s, end |-> s + w, strand |-> "+"],
      fractionNum |-> fractionNum,
      flankingBinSize |-> flankingBinSize,
      flankingBinNum |-> flankingBinNum] :
        length \in 1..MaxLength, strand \in Strands, s \in 0..(MaxLength - 1), w \in 1..2,
        fractionNum \in 1..MaxFractionNum,
        flankingBinSize \in 0..MaxFlankingBinSize,
        flankingBinNum \in 0..MaxFlankingBinNum}

FeatureFractionInit ==
    /\ params \in {a \in FeatureFractionArguments :
                       a.encompassedLine.end <= a.encompassingLine.end}
    /\ counter = [ods |-> FeatureFractionODS(params.fractionNum, params.flankingBinSize,
                                             params.flankingBinNum),
                  encompassedFeature |-> NoEncompassed,
                  encompassingFeature |-> NoEncompassing,
                  result |-> FractionResult(0, NoError)]
    /\ pc = "start"

\* the two records are parsed
ReadFeatures ==
    /\ pc = "start"
    /\ counter' = [counter EXCEPT
           !.encompassedFeature = constructEncompassedFeature(params.encompassedLine, 1),
           !.encompassingFeature = constructEncompassingFeature(params.encompassingLine, 1)]
    /\ pc' = "read"
    /\ UNCHANGED params

\* the stratifier is applied to the confirmed pair
UpdateFeatureFraction ==
    /\ pc = "read"
    /\ counter' = [counter EXCEPT !.result =
           featureFractionBin(counter.ods, counter.encompassedFeature,
                              counter.encompassingFeature)]
    /\ pc' = IF counter'.result.err = NoError THEN "done" ELSE "crashed"
    /\ UNCHANGED params

FeatureFractionNext ==
    \/ ReadFeatures
    \/ UpdateFeatureFraction

FeatureFractionSpec == FeatureFractionInit /\ [][FeatureFractionNext]_vars

(***************************************************************************)
(* parseToIterable.  A string is the sequence of its characters.  The      *)
(* characters of the inputs are the digits 0 and 1, the letters n and a, a  *)
(* blank and the three special characters, so the text float() takes is    *)
(* integer text or a signed nan.                                           *)
(***************************************************************************)
MaxInputLength == 5

Digit == {"0", "1"}
InputCharacters == Digit \cup {"n", "a", " ", ",", "-", "$"}
NoChar == ""

\* str.strip()
strip(s) ==
    LET nonBlank == {i \in DOMAIN s : s[i] # " "}
    IN  IF nonBlank = {} THEN <<>>
        ELSE SubSeq(s, CHOOSE i \in nonBlank : \A j \in nonBlank : i <= j,
                       CHOOSE i \in nonBlank : \A j \in nonBlank : j <= i)

\* str.find(char) + 1: the first place of char in s, 0 when it is not in s
find(s, char) ==
    IF \E i \in DOMAIN s : s[i] = char
    THEN CHOOSE i \in DOMAIN s : s[i] = char /\ \A j \in 1..(i - 1) : s[j] # char
    ELSE 0

\* str.split(char, 1)
splitOnce(s, char) ==
    IF find(s, char) = 0 THEN <<s>>
    ELSE <<SubSeq(s, 1, find(s, char) - 1), SubSeq(s, find(s, char) + 1, Len(s))>>

\* str.split(char)
RECURSIVE split(_, _)
split(s, char) ==
    IF find(s, char) = 0 THEN <<s>>
    ELSE <<SubSeq(s, 1, find(s, char) - 1)>>
             \o split(SubSeq(s, find(s, char) + 1, Len(s)), char)

\* the digits of s read in base 10
RECURSIVE digitsValue(_)
digitsValue(s) ==
    IF s = <<>> THEN 0
    ELSE 10 * digitsValue(SubSeq(s, 1, Len(s) - 1)) + (IF s[Len(s)] = "1" THEN 1 ELSE 0)

\* int(text) succeeds, for text over InputCharacters: blanks around, a sign
\* and one digit or more
intAccepts(text) ==
    LET t == strip(text)
        digits == IF t # <<>> /\ t[1] = "-" THEN Tail(t) ELSE t
    IN  digits # <<>> /\ \A i \in DOMAIN digits : digits[i] \in Digit

\* float(text) is a NaN
isNaN(text) ==
    LET t == strip(text)
    IN  (IF t # <<>> /\ t[1] = "-" THEN Tail(t) ELSE t) = <<"n", "a", "n">>

\* float(text) succeeds
floatAccepts(text) == intAccepts(text) \/ isNaN(text)

\* int(text), where int(text) succeeds; also float(text), a whole number
int(text) ==
    LET t == strip(text)
    IN  IF t[1] = "-" THEN 0 - digitsValue(Tail(t)) ELSE digitsValue(t)

\* the values in outputList
StrItem(s) == [t |-> "str", s |-> s, start |-> 0, stop |-> 0, step |-> 0]
IntItem(n) == [t |-> "int", s |-> <<>>, start |-> n, stop |-> 0, step |-> 0]
RangeItem(start, stop, stepBy) == [t |-> "range", s |-> <<>>, start |-> start, stop |-> stop, step |-> stepBy]

\* [num for num in item]
RECURSIVE rangeValues(_, _, _)
rangeValues(start, stop, stepBy) ==
    IF (stepBy > 0 /\ start >= stop) \/ (stepBy < 0 /\ start <= stop) THEN <<>>
    ELSE <<IntItem(start)>> \o rangeValues(start + stepBy, stop, stepBy)

\* the state of one call: the list built so far, the warnings given, the
\* exception raised
ParseState(outputList, warnings, err) == [outputList |-> outputList, warnings |-> warnings, err |-> err]

\* lines 44-49
warnOfEmptyRange(r, start, stop, stepBy) ==
    IF (stop < start /\ stepBy > 0) \/ (stop > start /\ stepBy < 0)
    THEN [r EXCEPT !.warnings = @ + 1] ELSE r

\* lines 51-53
appendRange(r, start, stop, stepBy) ==
    [r EXCEPT !.outputList =
        Append(@, IF stepBy > 0 THEN RangeItem(start, stop + 1, stepBy)
                  ELSE RangeItem(start, stop - 1, stepBy))]

\* lines 33-54, with start, stop and step the stripped texts
parseRangeTexts(r, start, stop, stepBy) ==
    IF ~floatAccepts(start) \/ ~floatAccepts(stop) \/ ~floatAccepts(stepBy)
    THEN [r EXCEPT !.err = "UserInputError"]
    ELSE IF ~isNaN(stepBy) /\ int(stepBy) = 0 THEN [r EXCEPT !.err = "UserInputError"]
    ELSE IF isNaN(start) \/ isNaN(stop) \/ isNaN(stepBy)
         THEN \* no comparison with a NaN holds; int() of the text raises in the try
              \* of line 51, and int() of the NaN in the handler of line 54
              [r EXCEPT !.err = "ValueError"]
    ELSE appendRange(warnOfEmptyRange(r, int(start), int(stop), int(stepBy)),
                     int(start), int(stop), int(stepBy))

\* lines 28-31: the piece is split at the first range character, and what
\* follows at the first step character; the step is 1 when none is given
parseRange(r, inputPiece, rangeChar, stepChar) ==
    LET startStop == splitOnce(inputPiece, rangeChar)
        stopStep == splitOnce(strip(startStop[2]), stepChar)
    IN  IF find(strip(startStop[2]), stepChar) # 0
        THEN parseRangeTexts(r, strip(startStop[1]), strip(stopStep[1]), strip(stopStep[2]))
        ELSE parseRangeTexts(r, strip(startStop[1]), strip(startStop[2]), <<"1">>)

\* lines 59-62
parseSingleItem(r, inputPiece, castType) ==
    IF castType = "None" THEN [r EXCEPT !.outputList = Append(@, StrItem(inputPiece))]
    ELSE IF intAccepts(inputPiece)
         THEN [r EXCEPT !.outputList = Append(@, IntItem(int(inputPiece)))]
         ELSE [r EXCEPT !.err = "UserInputError"]

\* the body of the loop of line 20
parsePiece(r, piece, rangeChar, stepChar, castType) ==
    IF rangeChar # NoChar /\ find(strip(piece), rangeChar) # 0
    THEN parseRange(r, strip(piece), rangeChar, stepChar)
    ELSE IF strip(piece) # <<>> THEN parseSingleItem(r, strip(piece), castType)
    ELSE r

\* the loop of line 20 from piece i on; an exception ends it
RECURSIVE parsePieces(_, _, _, _, _, _)
parsePieces(r, pieces, i, rangeChar, stepChar, castType) ==
    IF i > Len(pieces) \/ r.err # "" THEN r
    ELSE parsePieces(parsePiece(r, pieces[i], rangeChar, stepChar, castType),
                     pieces, i + 1, rangeChar, stepChar, castType)

\* lines 70-74
RECURSIVE unpack(_)
unpack(outputList) ==
    IF outputList = <<>> THEN <<>>
    ELSE (IF Head(outputList).t = "range"
          THEN rangeValues(Head(outputList).start, Head(outputList).stop, Head(outputList).step)
          ELSE <<Head(outputList)>>) \o unpack(Tail(outputList))

\* what a call gives back: the value returned, or the exception raised and
\* no value
Returned(isRange, value, warnings) == [raised |-> "", isRange |-> isRange, value |-> value, warnings |-> warnings]
Raised(err, warnings) == [raised |-> err, isRange |-> FALSE, value |-> <<>>, warnings |-> warnings]

\* lines 65-74
returnOutput(r) ==
    IF r.err # "" THEN Raised(r.err, r.warnings)
    ELSE IF Len(r.outputList) = 1 /\ r.outputList[1].t = "range"
         THEN Returned(TRUE, r.outputList, r.warnings)
         ELSE Returned(FALSE, unpack(r.outputList), r.warnings)

parseToIterable(input, sepChar, rangeChar, stepChar, castType) ==
    returnOutput(parsePieces(ParseState(<<>>, 0, ""), split(input, sepChar), 1,
                             rangeChar, stepChar, castType))

\* the inputs of at most n characters
InputsUpTo(n) == UNION {[1..k -> InputCharacters] : k \in 0..n}

\* a call with the default separator and step characters; the range character
\* is the default or None, the cast type None or int
ParseToIterableInit ==
    /\ params \in [input : InputsUpTo(MaxInputLength), sepChar : {","}, rangeChar : {"-", NoChar},
                   stepChar : {"$"}, castType : {"None", "int"}]
    /\ counter = Raised("", 0)
    /\ pc = "start"

ParseToIterable ==
    /\ pc = "start"
    /\ counter' = parseToIterable(params.input, params.sepChar, params.rangeChar,
                                  params.stepChar, params.castType)
    /\ pc' = IF counter'.raised = "" THEN "done" ELSE "crashed"
    /\ UNCHANGED params

ParseToIterableNext == ParseToIterable

ParseToIterableSpec == ParseToIterableInit /\ [][ParseToIterableNext]_vars

(***************************************************************************)
(* Metadata and MetadataList.  The objects live in a heap and a list holds *)
(* references to them, so that two lists can share an object.  A feature   *)
(* value is None or an immutable value; the directory of an object, when   *)
(* it has one, exists.                                                     *)
(***************************************************************************)
MaxMetadata == 2
MaxOperations == 3

FeatureIDEnum == {"FRUIT", "COMPANY"}
NoneValue == "None"
FeatureValues == {NoneValue, "APPLE", "Green_Bluff"}
Directories == {NoneValue, ".metadata"}

\* Metadata.defaultValues
defaultValues == [featureID \in {} |-> NoneValue]

\* Metadata.initializeFeatures
initializeFeatures ==
    [featureID \in FeatureIDEnum |->
        IF featureID \in DOMAIN defaultValues THEN defaultValues[featureID] ELSE NoneValue]

\* Metadata.__init__ without an initialization file: the object
newMetadata(directory) == [features |-> initializeFeatures, directory |-> directory]

\* Metadata.__setitem__ on the object at reference r
setitem(heap, r, metadataFeatureID, metadataFeature) ==
    [heap EXCEPT ![r].features =
        [featureID \in DOMAIN @ \cup {metadataFeatureID} |->
            IF featureID = metadataFeatureID THEN metadataFeature ELSE @[featureID]]]

\* the loop of Metadata.copy: the features of the object at r given to the one at n
RECURSIVE copyFeatures(_, _, _, _)
copyFeatures(heap, r, n, featureIDs) ==
    IF featureIDs = {} THEN heap
    ELSE LET featureID == CHOOSE f \in featureIDs : TRUE
         IN  copyFeatures(setitem(heap, n, featureID, heap[r].features[featureID]),
                          r, n, featureIDs \ {featureID})

\* a heap and the references an operation returns
Refs(heap, refs, err) == [heap |-> heap, refs |-> refs, err |-> err]

\* Metadata.copy returning the object itself
copyByReference(heap, r) == Refs(heap, <<r>>, "")

\* Metadata.copy: a new object of the same directory, given every feature of
\* the object at r
copy(heap, r) ==
    Refs(copyFeatures(Append(heap, newMetadata(heap[r].directory)), r, Len(heap) + 1,
                      DOMAIN heap[r].features),
         <<Len(heap) + 1>>, "")

\* MetadataList.copy
RECURSIVE copyList(_, _)
copyList(heap, refs) ==
    IF refs = <<>> THEN Refs(heap, <<>>, "")
    ELSE LET first == copy(heap, Head(refs))
             rest == copyList(first.heap, Tail(refs))
         IN  Refs(rest.heap, first.refs \o rest.refs, "")

\* an argument of update: one value, or a list or tuple of values
One(value) == [isList |-> FALSE, items |-> <<value>>]
Several(values) == [isList |-> TRUE, items |-> values]

\* the inner loop of update on the object at r
RECURSIVE updateFeatures(_, _, _, _)
updateFeatures(heap, r, features, newValues) ==
    IF features = <<>> \/ newValues = <<>> THEN heap
    ELSE updateFeatures(setitem(heap, r, Head(features), Head(newValues)),
                        r, Tail(features), Tail(newValues))

\* the outer loop of update
RECURSIVE updateAll(_, _, _, _)
updateAll(heap, refs, features, newValues) ==
    IF refs = <<>> THEN heap
    ELSE updateAll(updateFeatures(heap, Head(refs), features, newValues),
                   Tail(refs), features, newValues)

\* MetadataList.update: the list updated in place and returned
update(heap, refs, features, newValues) ==
    IF Len(features.items) # Len(newValues.items) THEN Refs(heap, <<>>, "ValueError")
    ELSE Refs(updateAll(heap, refs, features.items, newValues.items), refs, "")

\* MetadataList.copyWithChanges
copyWithChanges(heap, refs, features, newValues) ==
    update(copyList(heap, refs).heap, copyList(heap, refs).refs, features, newValues)

\* the arguments of update and copyWithChanges
FeatureArguments ==
    {One(f) : f \in FeatureIDEnum} \cup {Several(<<f>>) : f \in FeatureIDEnum}
        \cup {Several(<<"FRUIT", "COMPANY">>)}
ValueArguments ==
    {One(v) : v \in FeatureValues} \cup {Several(<<v>>) : v \in FeatureValues}
        \cup {Several(<<"APPLE", "Green_Bluff">>)}

\* MetadataList(TestMetadata() for _ in range(n)), or a list holding one
\* object twice
MetadataInit ==
    /\ params \in [size : 1..MaxMetadata, directory : Directories, shared : BOOLEAN]
    /\ counter = [heap |-> [r \in 1..(IF params.shared THEN 1 ELSE params.size) |->
                               newMetadata(params.directory)],
                  lists |-> <<[refs |-> [i \in 1..params.size |-> IF params.shared THEN 1 ELSE i],
                               copiedFrom |-> 0]>>,
                  last |-> [op |-> "MetadataList", list |-> 1, index |-> 0,
                            features |-> One(NoneValue), newValues |-> One(NoneValue), err |-> ""],
                  operations |-> 0]
    /\ pc = "lists"

\* metadataList[index][featureID] = value
SetItem ==
    /\ pc = "lists"
    /\ counter.operations < MaxOperations
    /\ \E l \in DOMAIN counter.lists : \E i \in DOMAIN counter.lists[l].refs :
       \E featureID \in FeatureIDEnum : \E value \in FeatureValues :
          counter' = [counter EXCEPT
              !.heap = setitem(@, counter.lists[l].refs[i], featureID, value),
              !.last = [op |-> "setitem", list |-> l, index |-> i, features |-> One(featureID),
                        newValues |-> One(value), err |-> ""],
              !.operations = @ + 1]
    /\ UNCHANGED <<params, pc>>

\* metadataList.update(features, newValues)
Update ==
    /\ pc = "lists"
    /\ counter.operations < MaxOperations
    /\ \E l \in DOMAIN counter.lists :
       \E features \in FeatureArguments : \E newValues \in ValueArguments :
          counter' = [counter EXCEPT
              !.heap = update(@, counter.lists[l].refs, features, newValues).heap,
              !.last = [op |-> "update", list |-> l, index |-> 0, features |-> features,
                        newValues |-> newValues,
                        err |-> update(counter.heap, counter.lists[l].refs, features, newValues).err],
              !.operations = @ + 1]
    /\ UNCHANGED <<params, pc>>

\* newList = metadataList.copyWithChanges(features, newValues); nothing is
\* returned when update raises
CopyWithChanges ==
    /\ pc = "lists"
    /\ counter.operations < MaxOperations
    /\ \E l \in DOMAIN counter.lists :
       \E features \in FeatureArguments : \E newValues \in ValueArguments :
          counter' = [counter EXCEPT
              !.heap = copyWithChanges(@, counter.lists[l].refs, features, newValues).heap,
              !.lists = IF copyWithChanges(counter.heap, counter.lists[l].refs, features, newValues).err = ""
                        THEN Append(@, [refs |-> copyWithChanges(counter.heap, counter.lists[l].refs,
                                                                 features, newValues).refs,
                                        copiedFrom |-> l])
                        ELSE @,
              !.last = [op |-> "copyWithChanges", list |-> l, index |-> 0, features |-> features,
                        newValues |-> newValues,
                        err |-> copyWithChanges(counter.heap, counter.lists[l].refs, features, newValues).err],
              !.operations = @ + 1]
    /\ UNCHANGED <<params, pc>>

MetadataNext ==
    \/ SetItem
    \/ Update
    \/ CopyWithChanges

MetadataSpec == MetadataInit /\ [][MetadataNext]_vars

(***************************************************************************)
(* Table construction.  setupOutputDataStratifiers of a subclass is a       *)
(* sequence of add...Stratifier calls on a new handler; the specification   *)
(* below makes the calls of a pipeline one at a time.  params is the        *)
(* pipeline with the template encompassing feature and the padding, and     *)
(* counter holds the handler.                                               *)
(***************************************************************************)
MaxStratifiers == 3
MaxTemplateLength == 2

\* the add...Stratifier calls a pipeline is made of
StratifierEntries ==
    {Stratifier(kind, a) : kind \in {"StrandComparisonODS", "RelativePosODS",
                                     "EncompassingFeatureODS"},
                           a \in {"tolerate", "record"}}
        \cup {Tolerate("EncompassedFeatureODS"), Placeholder("Counts"),
              \* addRelativePositionStratifier(..., centerRelativePos = False)
              [Tolerate("RelativePosODS") EXCEPT !.centerRelativePos = FALSE]}

\* the first encompassing features the constructor may have read
TemplateFeatures ==
    {constructEncompassingFeature([chrom |-> 1, start |-> 0, end |-> len, strand |-> "+"], 1) :
        len \in 1..MaxTemplateLength}

TableConstructionInit ==
    /\ params \in [pipeline : UNION {[1..n -> StratifierEntries] : n \in 1..MaxStratifiers},
                   encompassingFeature : TemplateFeatures,
                   extraRangeRadius : 0..1]
    /\ counter = [outputDataHandler |-> newOutputDataHandler(0, FALSE, FALSE, FALSE)]
    /\ pc = "setup"

\* the next add...Stratifier call of the pipeline
AddStratifier ==
    /\ pc = "setup"
    /\ nbStratifiers(counter.outputDataHandler) < Len(params.pipeline)
    /\ counter' = [counter EXCEPT !.outputDataHandler =
                      addStratifier(@, params.pipeline[nbStratifiers(@) + 1],
                                    params.encompassingFeature, params.extraRangeRadius)]
    /\ pc' = IF Failed(counter'.outputDataHandler) THEN "crashed" ELSE "setup"
    /\ UNCHANGED params

TableConstructionNext == AddStratifier

TableConstructionSpec == TableConstructionInit /\ [][TableConstructionNext]_vars

(***************************************************************************)
(* Batch runs that track every encompassing feature, with the              *)
(* encompassing-feature stratifier first in the pipeline: alone, followed  *)
(* by the placeholder or by the strand comparison, and followed by both.   *)
(* Unsorted files are explored with the first run.                         *)
(***************************************************************************)
TrackingRun(stratifiers, encompassingFeatureExtraRadius) ==
    Run(<<Tolerate("EncompassingFeatureODS")>> \o stratifiers, 0, TRUE, FALSE, FALSE,
        encompassingFeatureExtraRadius)

PlaceholderTrackingRun == TrackingRun(<<Placeholder("Counts")>>, 0)

ZeroCountRuns ==
    {PlaceholderTrackingRun, TrackingRun(<<Placeholder("Counts")>>, 1), TrackingRun(<<>>, 0),
     TrackingRun(<<Tolerate("StrandComparisonODS")>>, 0),
     TrackingRun(<<Tolerate("StrandComparisonODS"), Placeholder("Counts")>>, 0),
     TrackingRun(<<Stratifier("StrandComparisonODS", "record"), Placeholder("Counts")>>, 0)}

ZeroCountInit ==
    /\ \E trackingRun \in ZeroCountRuns :
       \E encompassedLines \in SortedFilesUpTo(EncompassedLineUniverse, MaxLines) :
       \E encompassingLines \in
            IF trackingRun = PlaceholderTrackingRun
            THEN FilesUpTo(EncompassingLineUniverse(StrandsFor(trackingRun)), MaxLines)
            ELSE SortedFilesUpTo(EncompassingLineUniverse(StrandsFor(trackingRun)), MaxLines) :
          params = [run |-> trackingRun,
                    encompassedLines |-> encompassedLines,
                    encompassingLines |-> encompassingLines,
                    checkForSortedFiles |-> <<TRUE, TRUE>>]
    /\ counter = NewCounter(params)
    /\ pc = "start"

ZeroCountSpec == ZeroCountInit /\ [][Next]_vars

(***************************************************************************)
(* Memory management.  manageMemory is a method of the stratifiers that    *)
(* the counter never calls itself: a subclass or the caller of the counter *)
(* calls it on the root stratifier between two steps of a run.  A list of  *)
(* output data dictionaries holds references: the number of a dictionary   *)
(* of the heap or, for a supplemental information list that got into it,   *)
(* the negative of the number of the list.  The order of the references    *)
(* within a list is that of the parent's keys.                             *)
(***************************************************************************)
ListRef(id) == 0 - id
IsListRef(ref) == ref < 0

\* the reference appended for a value of a parent dictionary
RefOf(val) == IF val.t = "list" THEN ListRef(val.n) ELSE val.n

RECURSIVE valuesOfDictionary(_, _, _)
\* for thisLevelDictionary in parentDictionary.values(), over the listed keys
valuesOfDictionary(h, d, keys) ==
    IF keys = <<>> THEN <<>>
    ELSE <<RefOf(h.heap[d][Head(keys)])>> \o valuesOfDictionary(h, d, Tail(keys))

RECURSIVE cleanUpLoop(_, _)
\* the loops of cleanUpOutputDataDicts, lines 199-201: r.new is the list built so
\* far; a parent that is a list has no values()
cleanUpLoop(r, parentDictionaries) ==
    IF parentDictionaries = <<>> THEN r
    ELSE IF IsListRef(Head(parentDictionaries))
    THEN [r EXCEPT !.h = Raise(@, "AttributeError")]
    ELSE cleanUpLoop(
            [r EXCEPT !.new = @ \o valuesOfDictionary(
                                       r.h, Head(parentDictionaries),
                                       SortedKeys(DOMAIN r.h.heap[Head(parentDictionaries)]))],
            Tail(parentDictionaries))

RECURSIVE cleanUpOutputDataDicts(_, _, _)
\* OutputDataStratifier.cleanUpOutputDataDicts of the stratifier at level i
cleanUpOutputDataDicts(h, i, parentDictionaries) ==
    LET Rebuilt(r) ==
            IF ~Failed(r.h) /\ hasChildStratifier(r.h, i)
            THEN cleanUpOutputDataDicts(
                    [r.h EXCEPT !.outputDataStratifiers[i].outputDataDictionaries = r.new],
                    i + 1, r.new)
            ELSE [r.h EXCEPT !.outputDataStratifiers[i].outputDataDictionaries = r.new]
    IN Rebuilt(cleanUpLoop(Created(h), parentDictionaries))

\* OutputDataStratifier.manageMemory of the root stratifier: the copy of allKeys
\* and the clearing and refilling of the root dictionary leave their contents as
\* they are
manageMemory(h) ==
    IF Failed(h) THEN h
    ELSE IF Len(h.outputDataStratifiers[1].outputDataDictionaries) # 1
    THEN Raise(h, "AssertionError")
    ELSE IF ~hasChildStratifier(h, 1) THEN Raise(h, "AttributeError")
    ELSE cleanUpOutputDataDicts(h, 2, h.outputDataStratifiers[1].outputDataDictionaries)

\* a call of manageMemory on the root stratifier between two steps of count()
ManageMemory ==
    /\ pc \in {"count", "reconcile", "outer", "inner", "drain", "done"}
    /\ nbStratifiers(counter.outputDataHandler) > 0
    /\ counter' = WithHandler(counter, manageMemory(counter.outputDataHandler))
    /\ pc' = Goto(counter', pc)
    /\ UNCHANGED params

\* The runs explored with memory management: incremental writing by encompassed
\* and by encompassing feature, three stratifiers without supplemental
\* information, with a handler on the first and with one on the second, and a
\* single stratifier.  Unsorted files are explored with the first run.
PrunedByEncompassedRun ==
    Run(<<Tolerate("EncompassedFeatureODS"), Placeholder("Counts")>>,
        ENCOMPASSED_DATA, FALSE, FALSE, FALSE, 0)

ThreeLevelRun(writeIncrementally) ==
    Run(<<Tolerate("EncompassedFeatureODS"), Tolerate("StrandComparisonODS"),
          Placeholder("Counts")>>, writeIncrementally, FALSE, FALSE, FALSE, 0)

MemoryRuns ==
    {PrunedByEncompassedRun,
     Run(<<Tolerate("EncompassingFeatureODS"), Placeholder("Counts")>>,
         ENCOMPASSING_DATA, TRUE, FALSE, FALSE, 0),
     ThreeLevelRun(ENCOMPASSED_DATA),
     WithSupplementalInfo(ThreeLevelRun(0), 1, <<UntilExitHandler>>),
     WithSupplementalInfo(ThreeLevelRun(0), 2, <<UntilExitHandler>>),
     Run(<<Tolerate("StrandComparisonODS")>>, 0, FALSE, FALSE, FALSE, 0)}

MemoryInit ==
    /\ \E memoryRun \in MemoryRuns :
       \E encompassedLines \in
            IF memoryRun = PrunedByEncompassedRun
            THEN FilesUpTo(EncompassedLineUniverse, MaxLines)
            ELSE SortedFilesUpTo(EncompassedLineUniverse, MaxLines) :
       \E encompassingLines \in SortedFilesUpTo(EncompassingLineUniverse({"+"}), MaxLines) :
          params = [run |-> memoryRun,
                    encompassedLines |-> encompassedLines,
                    encompassingLines |-> encompassingLines,
                    checkForSortedFiles |-> <<TRUE, TRUE>>]
    /\ counter = NewCounter(params)
    /\ pc = "start"

MemoryNext == Next \/ ManageMemory

MemorySpec == MemoryInit /\ [][MemoryNext]_vars

(***************************************************************************)
(* Properties.  The facts about the input that the properties refer to    *)
(* are computed from the input files alone.                                *)
(***************************************************************************)
\* the features of the two input files, by line
EncompassedFeatures ==
    [j \in DOMAIN params.encompassedLines |->
        constructEncompassedFeature(params.encompassedLines[j], j)]
EncompassingFeatures ==
    [k \in DOMAIN params.encompassingLines |->
        constructEncompassingFeature(params.encompassingLines[k], k)]

\* the padding radius R of the run, in bases
Radius == params.run.encompassingFeatureExtraRadius

\* the position of ed lies in [startPos - R, endPos + R] of eg, on its chromosome
InWindow(ed, eg, R) ==
    /\ ed.chromosome = eg.chromosome
    /\ ed.position >= eg.startPos - 2 * R
    /\ ed.position <= eg.endPos + 2 * R

\* the encompassing features (lines) whose padded window holds encompassed line j
WindowsOf(j) ==
    {k \in DOMAIN EncompassingFeatures :
        InWindow(EncompassedFeatures[j], EncompassingFeatures[k], Radius)}

SortedInputs == IsSorted(params.encompassedLines) /\ IsSorted(params.encompassingLines)

\* no two encompassing features share a position
NonOverlapping ==
    \A k, l \in DOMAIN EncompassingFeatures :
        k # l => \/ EncompassingFeatures[k].chromosome # EncompassingFeatures[l].chromosome
                 \/ EncompassingFeatures[k].endPos < EncompassingFeatures[l].startPos
                 \/ EncompassingFeatures[l].endPos < EncompassingFeatures[k].startPos

RECURSIVE sumOfCounts(_, _)
RECURSIVE sumOfDictionary(_, _, _)
\* the sum of the counts under the listed keys of dictionary d
sumOfDictionary(h, d, keys) ==
    IF keys = <<>> THEN 0
    ELSE sumOfCounts(h, h.heap[d][Head(keys)]) + sumOfDictionary(h, d, Tail(keys))
\* the sum of the counts held by a value of the table
sumOfCounts(h, val) ==
    IF val.t = "int" THEN val.n
    ELSE sumOfDictionary(h, val.n, SortedKeys(DOMAIN h.heap[val.n]))

\* the sum of all counts in the table
TableSum ==
    sumOfCounts(counter.outputDataHandler, counter.outputDataHandler.outputDataStructure)

\* the count increments made for encompassed line j
CountsOf(j) ==
    {n \in DOMAIN counter.outputDataHandler.countLog :
        counter.outputDataHandler.countLog[n].line = j}

\* the events of a type the counter raised for encompassed line j
EventsOf(type, j) ==
    {n \in DOMAIN counter.events :
        counter.events[n].type = type /\ counter.events[n].ed = j}

Completed == pc = "done"

LinearCoverageCase == Completed /\ SortedInputs /\ Radius = 0 /\ NonOverlapping

\* C1 as stated: for sorted inputs, no padding and pairwise non-overlapping
\* encompassing features, after count() completes the sum of all counts in the
\* table is the number of encompassed features that lie within some encompassing
\* feature.
C1_LinearCoverage_AsStated ==
    LinearCoverageCase =>
        TableSum = Cardinality({j \in DOMAIN EncompassedFeatures : WindowsOf(j) # {}})

\* C1: linear coverage.  For sorted inputs, no padding and pairwise
\* non-overlapping encompassing features, when the table is written in one batch
\* and countAllEncompassed is not set, after count() completes the sum of all
\* counts in the table is the number of encompassed features whose position lies
\* within [startPos, endPos] of some encompassing feature on their chromosome.
C1_LinearCoverage ==
    (LinearCoverageCase /\ params.run.writeIncrementally = 0
        /\ ~params.run.countAllEncompassed) =>
        TableSum = Cardinality({j \in DOMAIN EncompassedFeatures : WindowsOf(j) # {}})

\* a completed batch run with stratifiers over two encompassing features, one
\* encompassed feature inside one of them and one outside both
C1_Witness ==
    /\ LinearCoverageCase
    /\ params.run.writeIncrementally = 0 /\ ~params.run.countAllEncompassed
    /\ Len(params.run.pipeline) = 2
    /\ Len(params.encompassingLines) = 2
    /\ Len(params.encompassedLines) = 2
    /\ WindowsOf(1) = {} /\ WindowsOf(2) # {}
    /\ TableSum = 1


\* every stratifier of the pipeline handles ambiguity by tolerating it
AllTolerate ==
    \A i \in DOMAIN params.run.pipeline : params.run.pipeline[i].ambiguityHandling = "tolerate"

\* the key a stratifier derives from the overlap of ed with eg
KeyOfOverlap(entry, ed, eg) ==
    CASE entry.kind = "StrandComparisonODS" -> BoolKey(ed.strand = eg.strand)
      [] entry.kind = "RelativePosODS" ->
             NumKey(ed.position - (IF entry.centerRelativePos THEN eg.center ELSE eg.startPos))
      [] entry.kind = "EncompassingFeatureODS" -> EncompassingKey(eg)
      [] entry.kind = "EncompassedFeatureODS" -> EncompassedKey(ed)
      [] entry.kind = "SimpleEncompassingColStrODS" -> StrKey(eg.chromosome)
      [] OTHER -> None

\* the key path derived from the overlap of encompassed line j with encompassing line k
PathOfOverlap(j, k) ==
    [i \in DOMAIN params.run.pipeline |->
        KeyOfOverlap(params.run.pipeline[i], EncompassedFeatures[j], EncompassingFeatures[k])]

\* the number of count increments made during the n-th call to the handler
IncrementsAt(n) ==
    counter.events[n].counted - (IF n = 1 THEN 0 ELSE counter.events[n - 1].counted)

\* encompassed line j was counted once per window: one increment on the one
\* non-exiting overlap event of each window, at the key path of that overlap,
\* none on an exiting event, and no other increment
CountedOncePerWindow(j) ==
    /\ Cardinality(CountsOf(j)) = Cardinality(WindowsOf(j))
    /\ \A k \in WindowsOf(j) :
          \E n \in EventsOf("overlap", j) :
             /\ counter.events[n].eg = k
             /\ \A m \in EventsOf("overlap", j) : counter.events[m].eg = k => m = n
             /\ IncrementsAt(n) = 1
             /\ counter.outputDataHandler.countLog[counter.events[n].counted].line = j
             /\ counter.outputDataHandler.countLog[counter.events[n].counted].path
                   = PathOfOverlap(j, k)
    /\ \A n \in EventsOf("exit", j) : IncrementsAt(n) = 0

\* C2 as stated: when every stratifier is tolerate, for any sorted inputs and any
\* padding, an encompassed feature in the padded window of exactly k encompassing
\* features has caused exactly k count increments when count() completes.
C2_TolerateConservation_AsStated ==
    (Completed /\ SortedInputs /\ AllTolerate) =>
        \A j \in DOMAIN EncompassedFeatures : CountedOncePerWindow(j)

\* C2: ambiguity conservation under tolerate.  When every stratifier is tolerate
\* and countAllEncompassed is not set, for any sorted inputs and any padding R,
\* when count() completes an encompassed feature whose position lies in the
\* padded window of exactly k same-chromosome encompassing features has caused
\* exactly k count increments: one on each non-exiting overlap event, at the key
\* path derived from that overlap, and none on its exiting event.
C2_TolerateConservation ==
    (Completed /\ SortedInputs /\ AllTolerate /\ ~params.run.countAllEncompassed) =>
        \A j \in DOMAIN EncompassedFeatures : CountedOncePerWindow(j)

\* a completed tolerant run in which one encompassed feature lies in the windows
\* of two encompassing features of different strands and was counted twice, once
\* under each key
C2_Witness ==
    /\ Completed /\ SortedInputs /\ AllTolerate /\ ~params.run.countAllEncompassed
    /\ \E j \in DOMAIN EncompassedFeatures :
          /\ WindowsOf(j) = {1, 2}
          /\ PathOfOverlap(j, 1) # PathOfOverlap(j, 2)
          /\ Cardinality(CountsOf(j)) = 2
          /\ Cardinality(EventsOf("exit", j)) = 1


\* stratifier i saw two different key values across the overlaps of encompassed
\* line j
SawAmbiguity(i, j) ==
    \E k, l \in WindowsOf(j) :
        KeyOfOverlap(params.run.pipeline[i], EncompassedFeatures[j], EncompassingFeatures[k])
          # KeyOfOverlap(params.run.pipeline[i], EncompassedFeatures[j], EncompassingFeatures[l])

\* an ignore stratifier saw ambiguity for encompassed line j
Suppressed(j) ==
    \E i \in DOMAIN params.run.pipeline :
        params.run.pipeline[i].ambiguityHandling = "ignore" /\ SawAmbiguity(i, j)

\* the last encompassing line whose window holds encompassed line j
LastWindowOf(j) == CHOOSE k \in WindowsOf(j) : \A l \in WindowsOf(j) : l <= k

\* the key path given by the stratifierData of encompassed line j as accumulated
\* over all its overlaps: the ambiguous key where a non-tolerant stratifier saw
\* ambiguity, the key of the last overlap elsewhere
AccumulatedPath(j) ==
    [i \in DOMAIN params.run.pipeline |->
        IF params.run.pipeline[i].ambiguityHandling # "tolerate" /\ SawAmbiguity(i, j)
        THEN None
        ELSE KeyOfOverlap(params.run.pipeline[i], EncompassedFeatures[j],
                          EncompassingFeatures[LastWindowOf(j)])]

\* encompassed line j was counted exactly once, on its one exiting event, at the
\* key path accumulated over its overlaps
CountedOnceAtExit(j) ==
    /\ Cardinality(CountsOf(j)) = 1
    /\ Cardinality(EventsOf("exit", j)) = 1
    /\ \A n \in EventsOf("exit", j) :
          /\ IncrementsAt(n) = 1
          /\ counter.outputDataHandler.countLog[counter.events[n].counted].line = j
          /\ counter.outputDataHandler.countLog[counter.events[n].counted].path
                = AccumulatedPath(j)

\* C3: deferred counting.  When at least one stratifier of the pipeline is
\* non-tolerant (record or ignore), over sorted inputs no count is ever
\* incremented on a non-exiting overlap event, and when count() completes every
\* encompassed feature that overlapped one or more encompassing features and is
\* not suppressed by an ignore stratifier was counted exactly once, at its
\* exiting event, at the key path given by its accumulated stratifierData.
C3_DeferredCounting ==
    (SortedInputs /\ ~AllTolerate) =>
        /\ \A n \in DOMAIN counter.events :
              counter.events[n].type = "overlap" => IncrementsAt(n) = 0
        /\ Completed =>
              \A j \in DOMAIN EncompassedFeatures :
                  (WindowsOf(j) # {} /\ ~Suppressed(j)) => CountedOnceAtExit(j)

\* a completed run with a record stratifier in which a feature overlapped two
\* encompassing features of different strands and was counted once, at its exit,
\* under the ambiguous key, next to a feature counted under an ordinary key
C3_Witness ==
    /\ Completed /\ SortedInputs /\ ~AllTolerate
    /\ \E j, j2 \in DOMAIN EncompassedFeatures :
          /\ Cardinality(WindowsOf(j)) = 2 /\ ~Suppressed(j)
          /\ AccumulatedPath(j)[1] = None
          /\ CountedOnceAtExit(j)
          /\ Cardinality(EventsOf("overlap", j)) = 2
          /\ Cardinality(WindowsOf(j2)) = 1 /\ CountedOnceAtExit(j2)


\* the record stratifiers that saw two different key values for encompassed line j
RecordedAmbiguities(j) ==
    {i \in DOMAIN params.run.pipeline :
        params.run.pipeline[i].ambiguityHandling = "record" /\ SawAmbiguity(i, j)}

\* encompassed line j was counted exactly once in the whole run, under the
\* ambiguous key at the level of stratifier i
CountedOnceAsAmbiguous(i, j) ==
    /\ Cardinality(CountsOf(j)) = 1
    /\ \A n \in CountsOf(j) : counter.outputDataHandler.countLog[n].path[i] = None

\* C4 as stated: when count() completes over sorted inputs, an encompassed
\* feature for which a record stratifier, at any level, saw two different key
\* values was counted exactly once, under the ambiguous key at that level.
C4_RecordConservation_AsStated ==
    (Completed /\ SortedInputs) =>
        \A j \in DOMAIN EncompassedFeatures :
            \A i \in RecordedAmbiguities(j) : CountedOnceAsAmbiguous(i, j)

\* C4: ambiguity conservation under record.  When count() completes over sorted
\* inputs, an encompassed feature for which a record stratifier (at any level of
\* the pipeline) saw two different key values across its overlaps, and for which
\* no ignore stratifier saw two different key values, was counted exactly once in
\* the whole run, under the reserved ambiguous key (None) at that stratifier's
\* level.
C4_RecordConservation ==
    (Completed /\ SortedInputs) =>
        \A j \in DOMAIN EncompassedFeatures :
            ~Suppressed(j) => \A i \in RecordedAmbiguities(j) : CountedOnceAsAmbiguous(i, j)

\* a completed run in which the record stratifier at the second level of the
\* pipeline saw both keys for a feature, counted once under the ambiguous key
C4_Witness ==
    /\ Completed /\ SortedInputs
    /\ \E j \in DOMAIN EncompassedFeatures :
          /\ ~Suppressed(j)
          /\ RecordedAmbiguities(j) = {2}
          /\ CountedOnceAsAmbiguous(2, j)


\* the last call of the counter to its output data handler
LastEvent == counter.events[Len(counter.events)]

\* the run was aborted by an exception raised while the handler processed an
\* event of an encompassed feature that an ignore stratifier suppresses
AbortedOnSuppressedFeature ==
    /\ pc = "crashed"
    /\ Len(counter.events) > 0
    /\ LastEvent.ed \in DOMAIN EncompassedFeatures
    /\ Suppressed(LastEvent.ed)

\* C5: ambiguity conservation under ignore.  Over sorted inputs, an encompassed
\* feature for which an ignore stratifier (at any level of the pipeline, terminal
\* or not) saw two different key values is never counted, and the run is not
\* aborted while that feature is processed.
C5_IgnoreConservation ==
    SortedInputs =>
        /\ \A j \in DOMAIN EncompassedFeatures : Suppressed(j) => CountsOf(j) = {}
        /\ ~AbortedOnSuppressedFeature


\* the run was rejected: quit() was called, no file was opened, the handler was
\* told of nothing and no output file exists
Rejected ==
    /\ pc = "quit"
    /\ ~counter.filesOpen
    /\ counter.events = <<>>
    /\ ~counter.outputDataHandler.writer.exists
    /\ counter.outputDataHandler.writer.outputFile = <<>>

\* an input file that is out of order and whose sort check is switched on
CheckedFileUnsorted ==
    \/ params.checkForSortedFiles[1] /\ ~IsSorted(params.encompassedLines)
    \/ params.checkForSortedFiles[2] /\ ~IsSorted(params.encompassingLines)

RunAgrees ==
    pc \in {"done", "crashed", "quit"} => run(params) = [pc |-> pc, counter |-> counter]

\* the rows of the output file after its header rows, and the number of times
\* each occurs
dataRows(h) ==
    SubSeq(h.writer.outputFile, h.writer.headerRows + 1, Len(h.writer.outputFile))
RowBag(rows) ==
    [row \in {rows[n] : n \in DOMAIN rows} |->
        Cardinality({n \in DOMAIN rows : rows[n] = row})]

\* the same input and configuration, written in batch mode
BatchParams == [params EXCEPT !.run.writeIncrementally = 0]

\* the run at hand is an incremental one over sorted inputs that has ended
IncrementalRunEnded ==
    /\ SortedInputs
    /\ params.run.writeIncrementally # 0
    /\ pc \in {"done", "crashed"}

\* C7: incremental/batch equivalence.  For the same sorted input and the same
\* stratifier configuration, an incremental run (by encompassed or by encompassing
\* feature) writes the rows that the batch run writes: when the batch run
\* completes, the incremental run completes too and the data rows of the two
\* output files are equal as multisets.
C7_IncrementalBatchEquivalence ==
    IncrementalRunEnded =>
        LET SameRowsAs(batch) ==
                batch.pc = "done" =>
                    /\ pc = "done"
                    /\ RowBag(dataRows(counter.outputDataHandler))
                         = RowBag(dataRows(batch.counter.outputDataHandler))
        IN SameRowsAs(run(BatchParams))

\* every key that a dictionary of the heap holds, the keys a popped feature left
\* in a key space included
AllKeysOf(h, i) ==
    UNION {DOMAIN h.heap[d] : d \in DOMAIN h.heap} \cup h.outputDataStratifiers[i].allKeys

RECURSIVE TableDictionaries(_, _)
\* the dictionaries of the table at stratification level i: the root at level 1,
\* the values of the dictionaries of level i - 1 at the levels below
TableDictionaries(h, i) ==
    IF i = 1 THEN {h.outputDataStructure.n}
    ELSE {h.heap[d][key].n : <<d, key>> \in
            {x \in TableDictionaries(h, i - 1) \X AllKeysOf(h, i - 1) :
                /\ x[2] \in DOMAIN h.heap[x[1]]
                /\ h.heap[x[1]][x[2]].t = "dict"}}

\* every key of the key space of level i is a key of every table dictionary of
\* that level
KeySpaceMaterialized(h, i) ==
    \A d \in TableDictionaries(h, i) :
        h.outputDataStratifiers[i].allKeys \subseteq DOMAIN h.heap[d]

\* C8: key-space invariant.  In every state of a run, once the handler has its
\* stratifiers (during setup, during counting and after incremental writes),
\* every key of a stratifier's key space (allKeys) is a key of every table
\* dictionary at that stratifier's level, so that a key removed from the table
\* has left the key space.
C8_KeySpaceInvariant ==
    (~Failed(counter.outputDataHandler) /\ nbStratifiers(counter.outputDataHandler) > 0) =>
        \A i \in DOMAIN counter.outputDataHandler.outputDataStratifiers :
            KeySpaceMaterialized(counter.outputDataHandler, i)

\* the number of events of a type that the counter raised for encompassed line j
NbEvents(type, j) == Cardinality(EventsOf(type, j))

\* encompassed line j has had its one terminal event, of the given type
ClassifiedOnceAs(type, j) ==
    /\ NbEvents(type, j) = 1
    /\ NbEvents(IF type = "exit" THEN "nonCounted" ELSE "exit", j) = 0

\* C9: exactly-one terminal classification.  In a run of count() over sorted
\* inputs no encompassed record ever has more than one terminal event, and when
\* the run completes every record has exactly one: an exiting event if it lay in
\* some padded encompassing window, a report on the non-counted path if it lay
\* in none.
C9_ExactlyOneTerminalClassification ==
    SortedInputs =>
        /\ \A j \in DOMAIN EncompassedFeatures :
              NbEvents("exit", j) + NbEvents("nonCounted", j) <= 1
        /\ Completed =>
              \A j \in DOMAIN EncompassedFeatures :
                  ClassifiedOnceAs(IF WindowsOf(j) # {} THEN "exit" ELSE "nonCounted", j)

\* a completed run in which the encompassing file ended with a feature in flight,
\* flushed as exiting, and a later record was reported as non-counted
C9_Witness ==
    /\ SortedInputs
    /\ Completed
    /\ \E j, l \in DOMAIN EncompassedFeatures :
          /\ j < l
          /\ WindowsOf(j) = {Len(params.encompassingLines)}
          /\ ClassifiedOnceAs("exit", j)
          /\ WindowsOf(l) = {}
          /\ ClassifiedOnceAs("nonCounted", l)

RECURSIVE ParseDigits(_)
\* the number that a string of decimal digits denotes
ParseDigits(s) ==
    IF s = <<>> THEN 0 ELSE 10 * ParseDigits(SubSeq(s, 1, Len(s) - 1)) + s[Len(s)]

RECURSIVE sumOfCells(_)
\* the sum of the count cells of a row, each read back from its digits
sumOfCells(row) ==
    IF row = <<>> THEN 0
    ELSE (IF Head(row).t = "count" THEN ParseDigits(Head(row).s) ELSE 0)
         + sumOfCells(Tail(row))
RECURSIVE sumOfRows(_)
sumOfRows(rows) ==
    IF rows = <<>> THEN 0 ELSE sumOfCells(Head(rows)) + sumOfRows(Tail(rows))

\* the sum of the count columns over the data rows of the output file
FileSum == sumOfRows(dataRows(counter.outputDataHandler))

\* count() has closed its input files and writeResults has returned or raised
BatchWritingEnded ==
    /\ params.run.writeIncrementally = 0
    /\ pc \in {"done", "crashed"}
    /\ ~counter.filesOpen

\* C10: idempotent formatting.  For any pipeline of at least one stratifier, one
\* whose last stratifier has a key space that grows during the run included, once
\* the table has been written the count columns of the data rows of the file sum
\* to the sum of all counts held in the table.
C10_IdempotentFormatting ==
    (SortedInputs /\ BatchWritingEnded /\ Len(params.run.pipeline) > 0) =>
        FileSum = TableSum

\* the pairs (offset, count) of a file written for a relative-position
\* stratifier alone: the keys of the header row with the counts below them
OffsetCounts(h) ==
    {<<h.writer.outputFile[1][j].key, ParseDigits(h.writer.outputFile[n][j].s)>> :
        n \in 2..Len(h.writer.outputFile), j \in DOMAIN h.writer.outputFile[1]}

\* C11: in the run over the features at 100 and 200 of chr1 and the encompassing
\* feature chr1 50 150 + (no padding, centred relative positions), the output
\* holds exactly one count, the count 1 at offset 0, and the feature at 200
\* contributes no count.
C11_CenteredRelativePosScenario ==
    (params = CenteredRelativePosScenario /\ pc \in {"done", "crashed"}) =>
        /\ pc = "done"
        /\ {oc \in OffsetCounts(counter.outputDataHandler) : oc[2] # 0} = {<<NumKey(0), 1>>}
        /\ CountsOf(2) = {}


\* the relative position of the encompassed feature before any adjustment, in half-bases
unadjustedRelativePos ==
    IF counter.encompassingFeature.strand = "+"
    THEN counter.encompassedFeature.position - counter.encompassingFeature.startPos
    ELSE counter.encompassingFeature.endPos - counter.encompassedFeature.position

FeatureFractionApplied == pc \in {"done", "crashed"} /\ "ods" \in DOMAIN counter

\* C12: without flanking bins, a position inside an encompassing feature of
\* length L split into N bins is assigned bin floor(rel * N / L) + 1, a member
\* of 1..N, where rel is the distance from the start on the + strand and
\* from the end on the - strand.
C12_FractionalBinning ==
    (FeatureFractionApplied /\ counter.ods.flankingBinNum = 0) =>
        /\ counter.result.err = NoError
        /\ counter.result.bin =
               (unadjustedRelativePos * counter.ods.fractionNum)
                   \div getLength(counter.encompassingFeature) + 1
        /\ counter.result.bin \in 1..counter.ods.fractionNum

\* the keys held by any dictionary of the table or by any key space
TableKeys ==
    UNION {DOMAIN counter.outputDataHandler.heap[d] : d \in DOMAIN counter.outputDataHandler.heap}
        \cup UNION {counter.outputDataHandler.outputDataStratifiers[i].allKeys :
                        i \in DOMAIN counter.outputDataHandler.outputDataStratifiers}

\* the rows of the output file that start with the name of a first-level key
RowsNaming(key) ==
    {n \in DOMAIN counter.outputDataHandler.writer.outputFile :
        /\ counter.outputDataHandler.writer.outputFile[n] # <<>>
        /\ counter.outputDataHandler.writer.outputFile[n][1] = NameCell(1, key)}

\* encompassed line j lies in no padded window of the encompassing file
NeverEncompassed(j) == WindowsOf(j) = {}

\* non-encompassed features are tracked, under the encompassed-feature stratifier
TracksByIdentity ==
    /\ params.run.trackAllEncompassed
    /\ Len(params.run.pipeline) > 0
    /\ params.run.pipeline[1].kind = "EncompassedFeatureODS"

\* C13: never-encompassed features.  An encompassed feature that lies in no padded
\* encompassing window creates no key, no count and no row while tracking of
\* non-encompassed features is disabled.  When tracking is enabled, with the
\* encompassed-feature stratifier first, the completed run has written a row under
\* the feature's own key; its count is 0 unless countAllEncompassed is set, in
\* which case the feature is counted once.
C13_NeverEncompassedFeatures ==
    \A j \in DOMAIN params.encompassedLines :
        NeverEncompassed(j) =>
            /\ ~params.run.trackAllEncompassed =>
                   /\ CountsOf(j) = {}
                   /\ EncompassedKey(EncompassedFeatures[j]) \notin TableKeys
                   /\ RowsNaming(EncompassedKey(EncompassedFeatures[j])) = {}
            /\ (TracksByIdentity /\ Completed) =>
                   /\ RowsNaming(EncompassedKey(EncompassedFeatures[j])) # {}
                   /\ Cardinality(CountsOf(j)) =
                          IF params.run.countAllEncompassed THEN 1 ELSE 0
                   /\ ~params.run.countAllEncompassed =>
                          \A n \in RowsNaming(EncompassedKey(EncompassedFeatures[j])) :
                              sumOfCells(counter.outputDataHandler.writer.outputFile[n]) = 0

\* a completed run that tracks by identity, without counting all features, wrote
\* a row of count 0 for a feature outside every window and counted another one
C13_Witness ==
    /\ Completed
    /\ TracksByIdentity
    /\ ~params.run.countAllEncompassed
    /\ \E j, l \in DOMAIN params.encompassedLines :
          /\ NeverEncompassed(j)
          /\ RowsNaming(EncompassedKey(EncompassedFeatures[j])) # {}
          /\ \A n \in RowsNaming(EncompassedKey(EncompassedFeatures[j])) :
                 sumOfCells(counter.outputDataHandler.writer.outputFile[n]) = 0
          /\ CountsOf(l) # {}

\* the second of two identical encompassing records has been read
DuplicateEncompassingRead ==
    \E k, l \in DOMAIN params.encompassingLines :
        /\ k < l
        /\ params.encompassingLines[k] = params.encompassingLines[l]
        /\ counter.encompassingRead >= l

\* the step that reads the second of two identical encompassing records
ReadsDuplicateEncompassing == ~DuplicateEncompassingRead /\ DuplicateEncompassingRead'

\* the step ends the run with an error and leaves the table and the key spaces alone
AbortsWithoutAdmitting ==
    /\ pc' = "crashed"
    /\ Failed(counter'.outputDataHandler)
    /\ counter'.outputDataHandler.heap = counter.outputDataHandler.heap
    /\ counter'.outputDataHandler.outputDataStratifiers
           = counter.outputDataHandler.outputDataStratifiers

\* the run tracks all encompassing features under the encompassing-feature stratifier
TracksEncompassingByIdentity ==
    /\ params.run.trackAllEncompassing
    /\ \E i \in DOMAIN params.run.pipeline :
           params.run.pipeline[i].kind = "EncompassingFeatureODS"

NamesMismatch ==
    /\ ~params.run.customStratifyingNames.isNone
    /\ Len(params.run.customStratifyingNames.entries) # Len(params.run.pipeline)

\* a supplemental handler is attached to the last stratifier
HandlerOnTerminal ==
    /\ params.run.supplementalInfoLevel > 0
    /\ params.run.supplementalInfoLevel = Len(params.run.pipeline)

\* a stratifier that takes its keys from a column of the encompassing file is to
\* count an overlap whose key is the sentinel
KeyCollides ==
    /\ HasKind(params.run, "SimpleEncompassingColStrODS")
    /\ \E j \in DOMAIN params.encompassedLines : \E k \in WindowsOf(j) :
           StrKey(EncompassingFeatures[k].chromosome) = SUP_INFO_KEY

NoOverlapProcessed == \A n \in DOMAIN counter.events : counter.events[n].type # "overlap"

\* the constructor has ended in an error
RejectedAtSetup == pc = "crashed" /\ counter.events = <<>>

\* C15 as stated: a custom-output-name list of the wrong length, a supplemental
\* handler on the terminal stratifier and a key that collides with the reserved
\* sentinel are each rejected during setup, before any input record is consumed and
\* before any overlap event is processed.
C15_ConfigurationErrors_AsStated ==
    (SortedInputs /\ pc # "start" /\ (NamesMismatch \/ HandlerOnTerminal \/ KeyCollides)) =>
        /\ RejectedAtSetup
        /\ counter.encompassedRead = 0
        /\ counter.encompassingRead = 0
        /\ NoOverlapProcessed

\* C15: a custom-output-name list of the wrong length and a supplemental handler on
\* the terminal stratifier are each rejected during setup, when at most the first
\* record of each input file has been read and no overlap event has been processed;
\* a key that collides with the reserved sentinel is rejected when the stratifier
\* is to add it: it never becomes a key and the run does not complete.
C15_ConfigurationErrors ==
    /\ (SortedInputs /\ pc # "start" /\ (NamesMismatch \/ HandlerOnTerminal)) =>
           /\ RejectedAtSetup
           /\ counter.encompassedRead <= 1
           /\ counter.encompassingRead <= 1
           /\ NoOverlapProcessed
    /\ SUP_INFO_KEY \notin TableKeys
    /\ (SortedInputs /\ KeyCollides) => pc # "done"

\* a list of names of the wrong length was rejected by the constructor, after the
\* first record of each input file had been read
C15_Witness ==
    /\ NamesMismatch
    /\ RejectedAtSetup
    /\ counter.outputDataHandler.err = "AssertionError"
    /\ counter.encompassedRead = 1
    /\ counter.encompassingRead = 1

(***************************************************************************)
(* Empty input                                                             *)
(***************************************************************************)
\* one of the input files holds no line
EmptyInput == params.encompassedLines = <<>> \/ params.encompassingLines = <<>>

\* no overlap event was raised and no count was incremented
NothingCounted ==
    /\ \A n \in DOMAIN counter.events : counter.events[n].type # "overlap"
    /\ counter.outputDataHandler.countLog = <<>>

\* C16: when the encompassed file, the encompassing file or both are empty, a
\* run whose set-up arguments are consistent never crashes, in the constructor
\* or in count(), raises no overlap event and increments no count.
C16_EmptyInput ==
    (EmptyInput /\ ~NamesMismatch /\ ~HandlerOnTerminal) =>
        (pc # "crashed" /\ NothingCounted)

(***************************************************************************)
(* Resource release                                                        *)
(***************************************************************************)
\* neither input file is open, and the output file, once opened, is closed
HandlesClosed ==
    /\ ~counter.filesOpen
    /\ counter.outputDataHandler.writer.exists => counter.outputDataHandler.writer.closed

\* C17: on every path out of a run (count() returning, quit() on unsorted
\* input, or an error raised while counting, when the caller still holds the
\* counter) both input files and the output file are closed.
C17_ResourceRelease ==
    [][(pc' \in {"done", "quit"} \/ (pc' = "crashed" /\ pc # "start")) => HandlesClosed']_vars

(***************************************************************************)
(* parseToIterable: malformed ranges and failed casts                      *)
(***************************************************************************)
\* the pieces of the input, stripped
InputPieces == {strip(split(params.input, params.sepChar)[i]) : i \in DOMAIN split(params.input, params.sepChar)}

\* the piece is read as a range
HasRangeChar(piece) == params.rangeChar # NoChar /\ find(piece, params.rangeChar) # 0

\* the texts of the start of a range piece, of what follows the first range
\* character, of its stop and of its step (empty when no step is given)
startText(piece) == strip(SubSeq(piece, 1, find(piece, params.rangeChar) - 1))
afterStart(piece) == strip(SubSeq(piece, find(piece, params.rangeChar) + 1, Len(piece)))
HasStep(piece) == find(afterStart(piece), params.stepChar) # 0
stopText(piece) == IF HasStep(piece) THEN strip(SubSeq(afterStart(piece), 1, find(afterStart(piece), params.stepChar) - 1)) ELSE afterStart(piece)
stepText(piece) == strip(SubSeq(afterStart(piece), find(afterStart(piece), params.stepChar) + 1, Len(afterStart(piece))))

\* the text is a number: a sign at most, then one digit or more
IsNumber(text) ==
    /\ text # <<>>
    /\ \A i \in DOMAIN text : text[i] \in Digit \/ (i = 1 /\ text[i] = "-")
    /\ \E i \in DOMAIN text : text[i] \in Digit

IsZero(text) == IsNumber(text) /\ \A i \in DOMAIN text : text[i] # "1"

\* the start, the stop or the step of the range piece is not numeric
NonNumericRange(piece) ==
    \/ ~IsNumber(startText(piece))
    \/ ~IsNumber(stopText(piece))
    \/ HasStep(piece) /\ ~IsNumber(stepText(piece))

ZeroStep(piece) == HasStep(piece) /\ IsZero(stepText(piece))

SecondRangeChar(piece) == find(afterStart(piece), params.rangeChar) # 0

\* a single item that the cast type does not take
FailsCast(piece) ==
    ~HasRangeChar(piece) /\ piece # <<>> /\ params.castType = "int" /\ ~IsNumber(piece)

\* a piece the claim has rejected
Malformed(piece) ==
    \/ HasRangeChar(piece) /\ (NonNumericRange(piece) \/ ZeroStep(piece) \/ SecondRangeChar(piece))
    \/ FailsCast(piece)

\* C18: when a piece of the input has the range character and a start, stop
\* or step that is not numeric, a step of 0, or a second range character, or is
\* a single item that cannot be cast to castType, parseToIterable raises
\* UserInputError and returns nothing.
C18_MalformedRanges ==
    (pc # "start" /\ \E piece \in InputPieces : Malformed(piece)) =>
        (counter.raised = "UserInputError" /\ counter.value = <<>>)

(***************************************************************************)
(* MetadataList.copyWithChanges: isolation                                 *)
(***************************************************************************)
\* the step is a call of copyWithChanges with one feature and one value
CopiesWithChange ==
    /\ counter'.operations = counter.operations + 1
    /\ counter'.last.op = "copyWithChanges"
    /\ ~counter'.last.features.isList
    /\ ~counter'.last.newValues.isList

\* the step assigns to a list obtained from copyWithChanges, by
\* metadataList[i][feature] = value or by update
AssignsToCopy ==
    /\ counter'.operations = counter.operations + 1
    /\ counter'.last.op \in {"setitem", "update"}
    /\ counter.lists[counter'.last.list].copiedFrom # 0

\* the step leaves the objects of list l as they were
LeavesUnchanged(l) ==
    \A i \in DOMAIN counter.lists[l].refs :
        counter'.heap[counter.lists[l].refs[i]] = counter.heap[counter.lists[l].refs[i]]

\* the step returned a list of as many new objects as list l has, each the
\* object of l at its place but for the feature, which has the value
ReturnsChangedCopy(l, feature, value) ==
    /\ Len(counter'.lists) = Len(counter.lists) + 1
    /\ LET newList == counter'.lists[Len(counter'.lists)].refs
           oldList == counter.lists[l].refs
       IN  /\ Len(newList) = Len(oldList)
           /\ \A i \in DOMAIN newList :
                /\ newList[i] \notin DOMAIN counter.heap
                /\ \A j \in DOMAIN newList : newList[j] = newList[i] => j = i
                /\ counter'.heap[newList[i]].directory = counter.heap[oldList[i]].directory
                /\ counter'.heap[newList[i]].features =
                       [featureID \in FeatureIDEnum |->
                           IF featureID = feature THEN value
                           ELSE counter.heap[oldList[i]].features[featureID]]

\* C19: copyWithChanges(feature, value) returns a new list of new Metadata
\* objects that carry the change and leaves every object there was, those of
\* the list it was called on among them, with the features it had; an
\* assignment to a list it returned leaves the objects of the list that one
\* was copied from with the features they had.
C19_CopyWithChangesIsolation ==
    [][/\ CopiesWithChange =>
            /\ counter'.last.err = ""
            /\ ReturnsChangedCopy(counter'.last.list, counter'.last.features.items[1],
                                  counter'.last.newValues.items[1])
            /\ \A r \in DOMAIN counter.heap : counter'.heap[r] = counter.heap[r]
       /\ AssignsToCopy => LeavesUnchanged(counter.lists[counter'.last.list].copiedFrom)]_vars

\* an object of the first list was given a fruit, the list was copied with a
\* change of company, and the copy of the object was then given another
\* fruit: the two now differ in both features
C19_Witness ==
    /\ Len(counter.lists) = 2
    /\ counter.lists[2].copiedFrom = 1
    /\ counter.last.op = "setitem"
    /\ counter.last.list = 2
    /\ counter.last.features.items[1] = "FRUIT"
    /\ LET original == counter.heap[counter.lists[1].refs[counter.last.index]]
           copied == counter.heap[counter.lists[2].refs[counter.last.index]]
       IN  /\ original.features["FRUIT"] = "APPLE"
           /\ copied.features["FRUIT"] = "Green_Bluff"
           /\ original.features["COMPANY"] = NoneValue
           /\ copied.features["COMPANY"] = "Green_Bluff"

(***************************************************************************)
(* Incremental writing by encompassed feature                              *)
(***************************************************************************)
IncrementalByEncompassed == params.run.writeIncrementally = ENCOMPASSED_DATA

\* the key of encompassed line j
KeyOfLine(j) == EncompassedKey(EncompassedFeatures[j])

\* the overlap, exit and non-counted events raised for a feature of the key,
\* and the increments made for one
EventsNaming(key) ==
    {n \in DOMAIN counter.events :
        /\ counter.events[n].type \in {"overlap", "exit", "nonCounted"}
        /\ KeyOfLine(counter.events[n].ed) = key}
CountsNaming(key) ==
    {n \in DOMAIN counter.outputDataHandler.countLog :
        KeyOfLine(counter.outputDataHandler.countLog[n].line) = key}

\* row n was written after every event and every increment for the key
WrittenLast(key, n) ==
    /\ \A e \in EventsNaming(key) : counter.events[e].written < n
    /\ \A g \in CountsNaming(key) : counter.outputDataHandler.countLog[g].written < n

\* the key is no longer in the table
Pruned(key) ==
    ~HasKey(counter.outputDataHandler, counter.outputDataHandler.outputDataStructure.n, key)

\* the feature of line j is tracked: it was found in a window, or every
\* encompassed feature is tracked
TrackedLine(j) == params.run.trackAllEncompassed \/ EventsOf("overlap", j) # {}

IncrementalByEncompassing == params.run.writeIncrementally = ENCOMPASSING_DATA

\* the key of encompassing line k
KeyOfEncompassingLine(k) == EncompassingKey(EncompassingFeatures[k])

\* the overlap and exit events raised with an encompassing feature of the key,
\* and the increments made under the key
EventsNamingEncompassing(key) ==
    {n \in DOMAIN counter.events :
        /\ counter.events[n].type \in {"overlap", "exit"}
        /\ counter.events[n].eg \in DOMAIN params.encompassingLines
        /\ KeyOfEncompassingLine(counter.events[n].eg) = key}
CountsNamingEncompassing(key) ==
    {n \in DOMAIN counter.outputDataHandler.countLog :
        /\ counter.outputDataHandler.countLog[n].path # <<>>
        /\ counter.outputDataHandler.countLog[n].path[1] = key}

\* row n was written after every overlap, exit and increment naming the key
WrittenAfterEvents(key, n) ==
    /\ \A e \in EventsNamingEncompassing(key) : counter.events[e].written < n
    /\ \A g \in CountsNamingEncompassing(key) :
           counter.outputDataHandler.countLog[g].written < n

\* before row n was written, every encompassed feature of the padded window of
\* encompassing line k had been found in it
WindowProcessed(k, n) ==
    \A j \in DOMAIN params.encompassedLines :
        k \in WindowsOf(j) =>
            \E e \in EventsOf("overlap", j) :
                counter.events[e].eg = k /\ counter.events[e].written < n

\* C21: with writeIncrementally = ENCOMPASSING_DATA the row of an encompassing
\* feature is written, and its key pruned, only after every encompassed feature
\* of its padded window has been processed against it; no overlap, increment or
\* exit names an encompassing key after its row was written, and no encompassing
\* key has two rows.
C21_IncrementalByEncompassing ==
    IncrementalByEncompassing =>
        \A k \in DOMAIN params.encompassingLines :
            /\ \A n \in RowsNaming(KeyOfEncompassingLine(k)) :
                  /\ WindowProcessed(k, n)
                  /\ WrittenAfterEvents(KeyOfEncompassingLine(k), n)
                  /\ Pruned(KeyOfEncompassingLine(k))
            /\ Cardinality(RowsNaming(KeyOfEncompassingLine(k))) <= 1

(***************************************************************************)
(* Table construction                                                      *)
(***************************************************************************)
\* the dictionaries that the stratifier of level i lists
ListedDictionaries(h, i) ==
    {h.outputDataStratifiers[i].outputDataDictionaries[n] :
        n \in DOMAIN h.outputDataStratifiers[i].outputDataDictionaries}

\* the list of the stratifier of level i is the set of the table's dictionaries
\* of that level
ListsLiveDictionaries(h, i) ==
    /\ ListedDictionaries(h, i) = TableDictionaries(h, i)
    /\ Cardinality(ListedDictionaries(h, i))
           = Len(h.outputDataStratifiers[i].outputDataDictionaries)

\* every table dictionary of level i has the key space of stratifier i as its
\* keys, with dictionaries as values above the last level and zeros at it
LevelMirrorsKeySpace(h, i) ==
    \A d \in TableDictionaries(h, i) :
        /\ DOMAIN h.heap[d] = h.outputDataStratifiers[i].allKeys
        /\ \A key \in DOMAIN h.heap[d] :
               IF i < nbStratifiers(h) THEN h.heap[d][key].t = "dict"
               ELSE h.heap[d][key] = IntVal(0)

\* C22: after any sequence of n >= 1 add...Stratifier calls, every path of the
\* table from the root to a leaf has n levels, the keys of every dictionary of
\* level i are the key space of stratifier i, every leaf is 0, and the
\* dictionary list of stratifier i is the set of the table's dictionaries of
\* level i.
C22_TableConstruction ==
    (~Failed(counter.outputDataHandler) /\ nbStratifiers(counter.outputDataHandler) >= 1) =>
        \A i \in DOMAIN counter.outputDataHandler.outputDataStratifiers :
            /\ LevelMirrorsKeySpace(counter.outputDataHandler, i)
            /\ ListsLiveDictionaries(counter.outputDataHandler, i)

(***************************************************************************)
(* Reconciliation pass on advancing the encompassing cursor                *)
(***************************************************************************)
\* the step reads a new encompassing feature that is not the first one
AdvancesEncompassingCursor ==
    /\ pc \in {"reconcile", "inner"}
    /\ counter'.encompassingRead = counter.encompassingRead + 1

\* the calls to the handler made during the step: method and features
EventsOfStep ==
    [n \in 1..(Len(counter'.events) - Len(counter.events)) |->
        [type |-> counter'.events[Len(counter.events) + n].type,
         ed |-> counter'.events[Len(counter.events) + n].ed,
         eg |-> counter'.events[Len(counter.events) + n].eg]]

\* the in-flight feature is strictly before the padded start of the encompassing
\* feature eg, or on another chromosome
HasExited(ed, eg) ==
    \/ ed.position < eg.startPos - 2 * Radius
    \/ ed.chromosome # eg.chromosome

\* the calls the pass is to make with the in-flight features inFlight, the new
\* encompassing feature and the previous one: the announcement, the exits, the
\* overlaps of the features that stay
ExpectedPass(inFlight, new, previous) ==
    LET Exits(ed) == HasExited(ed, new)
        Stays(ed) == ~HasExited(ed, new)
        Overlaps(ed) == ~HasExited(ed, new) /\ InWindow(ed, new, Radius)
        ExitOf(features) ==
            [n \in DOMAIN features |->
                [type |-> "exit", ed |-> features[n].line, eg |-> previous.line]]
        OverlapOf(features) ==
            [n \in DOMAIN features |->
                [type |-> "overlap", ed |-> features[n].line, eg |-> new.line]]
    IN [events |-> <<[type |-> "new", ed |-> 0, eg |-> new.line]>>
                      \o ExitOf(SelectSeq(inFlight, Exits))
                      \o OverlapOf(SelectSeq(inFlight, Overlaps)),
        kept |-> SelectSeq(inFlight, Stays)]

LinesOf(features) == [n \in DOMAIN features |-> features[n].line]

IsPrefixOf(s, t) == Len(s) <= Len(t) /\ s = SubSeq(t, 1, Len(s))

\* the step made the calls of the expected pass in their order (the first of them
\* up to the one that raised, when one raised) and kept the features that stay
MakesPass(expected) ==
    /\ IsPrefixOf(EventsOfStep, expected.events)
    /\ pc' # "crashed" =>
          /\ EventsOfStep = expected.events
          /\ LinesOf(counter'.confirmedEncompassedFeatures) = LinesOf(expected.kept)

\* C23: when the encompassing cursor advances to a new feature, the new feature
\* is announced first; then every in-flight feature strictly before the new
\* padded start or on another chromosome gets an exiting event (with the previous
\* encompassing feature) and leaves the in-flight list, and no other feature
\* leaves it; after all exiting events every remaining feature within the new
\* padded window gets a non-exiting overlap with the new feature.
C23_ReconciliationPass ==
    [][AdvancesEncompassingCursor =>
          MakesPass(ExpectedPass(counter.confirmedEncompassedFeatures,
                                 counter'.currentEncompassingFeature,
                                 counter.currentEncompassingFeature))]_vars

\* a pass announced encompassing line 2, let encompassed line 1 exit and found
\* encompassed line 2 again, in that order
C23_Witness ==
    /\ pc = "reconcile"
    /\ \E n \in DOMAIN counter.events :
          /\ n + 2 = Len(counter.events)
          /\ counter.events[n].type = "new" /\ counter.events[n].eg = 2
          /\ counter.events[n + 1].type = "exit"
          /\ counter.events[n + 1].ed = 1 /\ counter.events[n + 1].eg = 1
          /\ counter.events[n + 2].type = "overlap"
          /\ counter.events[n + 2].ed = 2 /\ counter.events[n + 2].eg = 2
    /\ LinesOf(counter.confirmedEncompassedFeatures) = <<2>>

(***************************************************************************)
(* Termination                                                             *)
(***************************************************************************)
\* both files are read to their end and no feature is in flight
CursorsAtEnd ==
    /\ counter.encompassedRead = Len(params.encompassedLines)
    /\ counter.encompassingRead = Len(params.encompassingLines)
    /\ IsNone(counter.currentEncompassedFeature)
    /\ IsNone(counter.currentEncompassingFeature)
    /\ counter.confirmedEncompassedFeatures = <<>>

\* C24: for any two finite input files, sorted or not, the run ends, and a
\* call of count() returns; when count() has returned both cursors are at the
\* end of their files, every encompassing record was read and no feature is in
\* flight.
C24_Termination == <>RunIsOver /\ (pc = "count" ~> Completed) /\ [](Completed => CursorsAtEnd)

\* count() returned on unsorted files of two chromosomes after features had been
\* in flight
C24_Witness ==
    /\ Completed
    /\ ~SortedInputs
    /\ CursorsAtEnd
    /\ Len(params.encompassedLines) = MaxLines
    /\ Len(params.encompassingLines) = MaxLines
    /\ \E n \in DOMAIN counter.events : counter.events[n].type = "exit"

(***************************************************************************)
(* Relative-position key coverage                                          *)
(***************************************************************************)
\* the offsets (in half-bases) of the integer and half-integer positions inside
\* the window of eg padded by radius, from the center or from the start
WindowOffsets(eg, radius, centered) ==
    {NumKey(p - (IF centered THEN eg.center ELSE eg.startPos)) :
        p \in (eg.startPos - 2 * radius)..(eg.endPos + 2 * radius)}

\* an encompassed feature of the template's chromosome whose relative position
\* the stratifier of level i has recorded as offset
FeatureAtOffset(h, i, offset) ==
    updateStratifierData(
        constructEncompassedFeature([chrom |-> params.encompassingFeature.chromosome,
                                     start |-> 0, end |-> 1, strand |-> "+"], 1),
        "RelativePosODS", offset)

\* the output keys of the stratifier of level i after getRelevantKey has
\* returned offset
OutputKeysAfterUse(h, i, offset) ==
    getSortedKeysForOutput(
        getRelevantKey(h, i, FeatureAtOffset(h, i, offset)).h.outputDataStratifiers[i])

\* the handler after the stratifier above level i has added the key of a
\* feature it had not seen, which adds a dictionary to level i
AfterParentKey(h, i) ==
    attemptAddKey(h, i - 1, IF h.outputDataStratifiers[i - 1].kind = "EncompassedFeatureODS"
                            THEN EncompassedKey(FeatureAtOffset(h, i, NumKey(0)))
                            ELSE EncompassingKey(params.encompassingFeature))

\* the stratifier of level i covers offset: in its key space, in every
\* dictionary of its level, and among the output keys once used
CoversOffset(h, i, offset) ==
    /\ offset \in h.outputDataStratifiers[i].allKeys
    /\ \A d \in ListedDictionaries(h, i) \cup TableDictionaries(h, i) :
           offset \in DOMAIN h.heap[d]
    /\ \E n \in DOMAIN OutputKeysAfterUse(h, i, offset) :
           OutputKeysAfterUse(h, i, offset)[n] = offset

\* the levels of the table that relative-position stratifiers were added for
RelativePosLevels ==
    {i \in 1..nbStratifiers(counter.outputDataHandler) :
        params.pipeline[i].kind = "RelativePosODS"}

\* the parent of level i has an open key space
HasOpenParent(h, i) ==
    /\ i > 1
    /\ h.outputDataStratifiers[i - 1].kind \in {"EncompassedFeatureODS", "EncompassingFeatureODS"}

\* C25: a relative-position stratifier, centred or not, is constructed for a
\* template of any length and padding, and every offset of an integer or
\* half-integer position inside the padded window is in its key space, in every
\* dictionary of its level (those added later under a new parent key included)
\* and among the output keys once it was used.
C25_RelativePosKeyCoverage ==
    \A i \in RelativePosLevels :
        /\ ~Failed(counter.outputDataHandler)
        /\ \A offset \in WindowOffsets(params.encompassingFeature, params.extraRangeRadius,
                                       params.pipeline[i].centerRelativePos) :
               /\ CoversOffset(counter.outputDataHandler, i, offset)
               /\ HasOpenParent(counter.outputDataHandler, i) =>
                      \A d \in ListedDictionaries(AfterParentKey(counter.outputDataHandler, i), i) :
                          offset \in DOMAIN AfterParentKey(counter.outputDataHandler, i).heap[d]

(***************************************************************************)
(* Flanking bins                                                           *)
(***************************************************************************)
\* the relative position after the adjustment for the flanking bins, and the
\* same counted from the end of the body, in half-bases
adjustedRelativePos ==
    relativePosOf(counter.ods, counter.encompassedFeature, counter.encompassingFeature)
relativePosPastBody ==
    adjustedRelativePos - nonFlankingSizeOf(counter.ods, counter.encompassingFeature)

\* a bin was computed for a position inside the bounds of the encompassing feature
BinComputed == FeatureFractionApplied /\ pc = "done"

\* the bin is a member of the key space, which is 1 - flankingBinNum ..
\* fractionNum + flankingBinNum
BinInKeySpace ==
    /\ counter.result.bin \in counter.ods.keys
    /\ counter.ods.keys = (1 - counter.ods.flankingBinNum)
                              ..(counter.ods.fractionNum + counter.ods.flankingBinNum)

\* C26 as stated: the bin is in the key space; flanking bin j before the body,
\* numbered 1 - j, receives exactly the adjusted relative positions in
\* [-j * flankingBinSize, -(j - 1) * flankingBinSize - 1], and flanking bin j
\* after the body, numbered fractionNum + j, exactly their mirror images past
\* the end of the body.
C26_FlankingBinsAsStated ==
    BinComputed =>
        /\ BinInKeySpace
        /\ \A j \in 1..counter.ods.flankingBinNum :
              /\ counter.result.bin = 1 - j <=>
                     adjustedRelativePos \in
                         (0 - j * 2 * counter.ods.flankingBinSize)
                            ..(0 - (j - 1) * 2 * counter.ods.flankingBinSize - 2)
              /\ counter.result.bin = counter.ods.fractionNum + j <=>
                     relativePosPastBody \in
                         ((j - 1) * 2 * counter.ods.flankingBinSize)
                            ..(j * 2 * counter.ods.flankingBinSize - 2)

\* C26: the bin is in the key space; flanking bin j before the body, numbered
\* 1 - j, receives exactly the adjusted relative positions in
\* [-j * flankingBinSize - 0.5, -(j - 1) * flankingBinSize - 1], the first one
\* also -0.5, and flanking bin j after the body, numbered fractionNum + j,
\* exactly the positions past the end of the body by
\* [(j - 1) * flankingBinSize, j * flankingBinSize - 0.5].
C26_FlankingBins ==
    BinComputed =>
        /\ BinInKeySpace
        /\ \A j \in 1..counter.ods.flankingBinNum :
              /\ counter.result.bin = 1 - j <=>
                     \/ adjustedRelativePos \in
                            (0 - j * 2 * counter.ods.flankingBinSize - 1)
                               ..(0 - (j - 1) * 2 * counter.ods.flankingBinSize - 2)
                     \/ j = 1 /\ adjustedRelativePos = -1
              /\ counter.result.bin = counter.ods.fractionNum + j <=>
                     relativePosPastBody \in
                         ((j - 1) * 2 * counter.ods.flankingBinSize)
                            ..(j * 2 * counter.ods.flankingBinSize - 1)

\* a half-integer position was put into the second flanking bin before the body
C26_Witness ==
    /\ BinComputed
    /\ counter.ods.flankingBinNum = 2
    /\ counter.result.bin = -1
    /\ adjustedRelativePos % 2 = 1

(***************************************************************************)
(* Supplemental information                                                *)
(***************************************************************************)
SupLog == counter.outputDataHandler.supLog
SupLevel == params.run.supplementalInfoLevel
SupHandlers == params.run.supplementalInfoHandlers

\* the handlers configured "until exit" and those configured "on count"
UntilExitOnly ==
    {k \in DOMAIN SupHandlers : SupHandlers[k].updateUntilExit /\ ~SupHandlers[k].updateOnCount}
OnCountOnly ==
    {k \in DOMAIN SupHandlers : SupHandlers[k].updateOnCount /\ ~SupHandlers[k].updateUntilExit}

\* the updates made during the n-th call to the output data handler, and those
\* of handler k among them
UpdatesWithin(n) ==
    {u \in DOMAIN SupLog :
        /\ u > (IF n = 1 THEN 0 ELSE counter.events[n - 1].supplemented)
        /\ u <= counter.events[n].supplemented}
UpdatesDuring(n, k) == {u \in UpdatesWithin(n) : SupLog[u].handler = k}

\* the n-th call to the output data handler was not ended by an exception
CallReturned(n) == n < Len(counter.events) \/ ~Failed(counter.outputDataHandler)

\* the overlap events of the encompassed feature of event n, up to event n
OverlapsUpTo(n) ==
    {m \in 1..n : counter.events[m].type = "overlap" /\ counter.events[m].ed = counter.events[n].ed}

\* the key that the stratifier at level i derives from overlap event m
KeyDerivedAt(i, m) ==
    KeyOfOverlap(params.run.pipeline[i], EncompassedFeatures[counter.events[m].ed],
                 EncompassingFeatures[counter.events[m].eg])

\* The key of the encompassed feature of event n at level i once the call is
\* made: the feature itself under the encompassed-feature stratifier; else the
\* key derived from its latest overlap, or None when it had no overlap or, for
\* a stratifier that does not tolerate ambiguity, overlaps with different keys.
FeatureKeyAt(i, n) ==
    IF params.run.pipeline[i].kind = "EncompassedFeatureODS"
    THEN EncompassedKey(EncompassedFeatures[counter.events[n].ed])
    ELSE IF OverlapsUpTo(n) = {} THEN None
    ELSE LET last == CHOOSE m \in OverlapsUpTo(n) : \A m2 \in OverlapsUpTo(n) : m2 <= m
         IN IF params.run.pipeline[i].ambiguityHandling = "tolerate"
               \/ \A m \in OverlapsUpTo(n) : KeyDerivedAt(i, m) = KeyDerivedAt(i, last)
            THEN KeyDerivedAt(i, last)
            ELSE None
FeaturePathAt(n) == [i \in 1..SupLevel |-> FeatureKeyAt(i, n)]

\* every update is made during a call to the output data handler, by a handler
\* of the run, at the level the handlers are attached to
UpdatesAreLogged ==
    /\ Len(SupLog) = (IF counter.events = <<>> THEN 0
                      ELSE counter.events[Len(counter.events)].supplemented)
    /\ \A u \in DOMAIN SupLog :
          SupLog[u].level = SupLevel /\ SupLog[u].handler \in DOMAIN SupHandlers

\* an "until exit" handler: one update in every overlap event, with the features
\* of the event, and none in any other event
UntilExitTiming ==
    \A k \in UntilExitOnly : \A n \in DOMAIN counter.events :
        CallReturned(n) =>
            IF counter.events[n].type = "overlap"
            THEN \E u \in UpdatesDuring(n, k) :
                    /\ UpdatesDuring(n, k) = {u}
                    /\ SupLog[u].caller = "updateODSs"
                    /\ SupLog[u].ed = counter.events[n].ed
                    /\ SupLog[u].eg = counter.events[n].eg
            ELSE UpdatesDuring(n, k) = {}

\* the updates of handler k, in order
UpdatesOf(k) == LET IsOfHandler(entry) == entry.handler = k IN SelectSeq(SupLog, IsOfHandler)

\* an "on count" handler: the m-th update comes just before the m-th count
\* increment, for the same encompassed feature, and there is no other update
OnCountTiming ==
    \A k \in OnCountOnly :
        /\ ~Failed(counter.outputDataHandler) =>
               Len(UpdatesOf(k)) = Len(counter.outputDataHandler.countLog)
        /\ \A m \in DOMAIN UpdatesOf(k) :
              /\ UpdatesOf(k)[m].caller = "countFeature"
              /\ UpdatesOf(k)[m].counted = m - 1
              /\ m <= Len(counter.outputDataHandler.countLog) =>
                     UpdatesOf(k)[m].ed = counter.outputDataHandler.countLog[m].line

\* an update is applied to the dictionary that the table holds under the key
\* path of the feature, and under no other
UpdatedUnderKeyPath ==
    \A n \in DOMAIN counter.events : \A u \in UpdatesWithin(n) :
        SupLog[u].paths = {FeaturePathAt(n)}

\* the accumulators hold the updates applied to them, in order
UpdatesToList(l, k) ==
    LET IsToList(entry) == entry.list = l /\ entry.handler = k
    IN SelectSeq(SupLog, IsToList)
AccumulatorsHoldUpdates ==
    /\ \A l \in DOMAIN counter.outputDataHandler.lists :
       \A k \in DOMAIN counter.outputDataHandler.lists[l] :
          /\ Len(counter.outputDataHandler.lists[l][k]) = Len(UpdatesToList(l, k))
          /\ \A x \in DOMAIN UpdatesToList(l, k) :
                counter.outputDataHandler.lists[l][k][x] =
                    [ed |-> UpdatesToList(l, k)[x].ed, eg |-> UpdatesToList(l, k)[x].eg]
    /\ \A u \in DOMAIN SupLog :
          counter.outputDataHandler.heap[SupLog[u].dictionary][SUP_INFO_KEY] =
              ListVal(SupLog[u].list)

\* C27 (supplemental handler timing): in every call to the output data handler
\* that no exception ends, a handler configured "until exit" is updated exactly
\* once when the call is a non-exiting overlap and not at all when it is an
\* exit, a non-counted feature or a new encompassing feature; a handler
\* configured "on count" is updated exactly once before each count increment
\* and at no other time; every update is applied to the accumulator of the
\* dictionary stored under the key path the feature has at that moment.
C27_SupplementalTiming ==
    /\ UpdatesAreLogged
    /\ UntilExitTiming
    /\ OnCountTiming
    /\ UpdatedUnderKeyPath
    /\ AccumulatorsHoldUpdates

\* a completed run in which an encompassed feature overlapped two encompassing
\* features of different strands under a recording strand stratifier: the "until
\* exit" handler was updated under two dictionaries, the "on count" handler once,
\* in the exit event
C27_Witness ==
    /\ Completed
    /\ ~Failed(counter.outputDataHandler)
    /\ UntilExitOnly # {} /\ OnCountOnly # {}
    /\ \E n1, n2, n3 \in DOMAIN counter.events :
          /\ n1 < n2 /\ n2 < n3
          /\ counter.events[n1].type = "overlap" /\ counter.events[n2].type = "overlap"
          /\ counter.events[n3].type = "exit"
          /\ counter.events[n1].ed = counter.events[n2].ed
          /\ counter.events[n2].ed = counter.events[n3].ed
          /\ \E u1 \in UpdatesWithin(n1), u2 \in UpdatesWithin(n2), u3 \in UpdatesWithin(n3) :
                /\ SupLog[u1].dictionary # SupLog[u2].dictionary
                /\ SupLog[u3].caller = "countFeature"
                /\ SupLog[u3].dictionary = SupLog[u2].dictionary

(***************************************************************************)
(* Zero-count rows                                                         *)
(***************************************************************************)
\* a batch run that tracks every encompassing feature, the encompassing-feature
\* stratifier first in the pipeline
TracksEncompassingInBatch ==
    /\ params.run.trackAllEncompassing
    /\ params.run.writeIncrementally = 0
    /\ Len(params.run.pipeline) > 0
    /\ params.run.pipeline[1].kind = "EncompassingFeatureODS"

\* the calls that announced encompassing line k to the stratifiers
AnnouncementsOf(k) ==
    {n \in DOMAIN counter.events :
        counter.events[n].type = "new" /\ counter.events[n].eg = k}

\* the rows of the output file written for encompassing line k
RowsOfRecord(k) == RowsNaming(KeyOfEncompassingLine(k))

\* no encompassed feature of the input lies in the padded window of line k
NothingOverlaps(k) == \A j \in DOMAIN EncompassedFeatures : k \notin WindowsOf(j)

\* the row holds counts, and every count is 0
CountsAreZero(row) ==
    /\ \E x \in DOMAIN row : row[x].t = "count"
    /\ \A x \in DOMAIN row : row[x].t = "count" => row[x] = CountCell(0)

\* the run ended, and not with the hard error for two encompassing features of
\* the same location
EndedOnValidInput ==
    \/ Completed
    \/ pc = "crashed" /\ counter.outputDataHandler.err # "AssertionError"

\* the stratifiers between the first and the last, and the combinations of their keys
MiddleLevels == 2..(Len(params.run.pipeline) - 1)
MiddleKeyCombinations ==
    {f \in [MiddleLevels ->
               UNION {counter.outputDataHandler.outputDataStratifiers[i].allKeys :
                          i \in MiddleLevels}] :
        \A i \in MiddleLevels : f[i] \in counter.outputDataHandler.outputDataStratifiers[i].allKeys}
RowOfCombination(n, f) ==
    \A i \in MiddleLevels :
        counter.outputDataHandler.writer.outputFile[n][i] =
            formatKeyForOutput(counter.outputDataHandler.outputDataStratifiers[i], i, f[i])

\* In the runs that complete, every record is announced once and has one row for
\* each combination of the keys of the stratifiers between the first and the last
\* one (one row when there is none between), with zero counts when nothing overlapped.
ZeroCountRowsPerCombination ==
    (TracksEncompassingInBatch /\ Completed) =>
        \A k \in DOMAIN params.encompassingLines :
            /\ Cardinality(AnnouncementsOf(k)) = 1
            /\ \A f \in MiddleKeyCombinations :
                  Cardinality({n \in RowsOfRecord(k) : RowOfCombination(n, f)}) = 1
            /\ \A n \in RowsOfRecord(k) : \E f \in MiddleKeyCombinations : RowOfCombination(n, f)
            /\ NothingOverlaps(k) =>
                  \A n \in RowsOfRecord(k) :
                      CountsAreZero(counter.outputDataHandler.writer.outputFile[n])

\* C28 (zero-count rows): in a batch run with trackAllEncompassing and the
\* encompassing-feature stratifier first in the pipeline, every encompassing record
\* of the input is announced to the stratifiers exactly once and has exactly one row
\* in the output, with count 0 when no encompassed feature overlapped it.
C28_ZeroCountRows ==
    (TracksEncompassingInBatch /\ EndedOnValidInput) =>
        \A k \in DOMAIN params.encompassingLines :
            /\ Cardinality(AnnouncementsOf(k)) = 1
            /\ Cardinality(RowsOfRecord(k)) = 1
            /\ NothingOverlaps(k) =>
                  \A n \in RowsOfRecord(k) :
                      CountsAreZero(counter.outputDataHandler.writer.outputFile[n])

(***************************************************************************)
(* Exit events                                                             *)
(***************************************************************************)
\* the calls that passed an encompassed feature as exiting
ExitEvents == {n \in DOMAIN counter.events : counter.events[n].type = "exit"}

\* the context of the exit is an encompassing feature whose padded window holds
\* the exiting feature, on the same chromosome
ExitContextEncompasses(n) ==
    /\ counter.events[n].eg \in DOMAIN EncompassingFeatures
    /\ counter.events[n].eg \in WindowsOf(counter.events[n].ed)

\* the encompassing line announced last before the n-th call
LatestAnnounced(n) ==
    LET announced == {counter.events[m].eg : m \in {x \in 1..(n - 1) : counter.events[x].type = "new"}}
    IN IF announced = {} THEN 0 ELSE CHOOSE k \in announced : \A l \in announced : l <= k

\* The context of an exit is the encompassing feature read before the one that
\* made the feature exit (the last feature of the file when its end did), and the
\* exiting feature lies in the window of the context or of a feature read before it.
ExitContextIsPrevious(n) ==
    /\ counter.events[n].eg \in DOMAIN EncompassingFeatures
    /\ \/ counter.events[n].eg = LatestAnnounced(n) - 1
       \/ /\ counter.events[n].eg = LatestAnnounced(n)
          /\ LatestAnnounced(n) = Len(params.encompassingLines)
    /\ \E k \in WindowsOf(counter.events[n].ed) : k <= counter.events[n].eg
ExitContextsArePrevious == \A n \in ExitEvents : ExitContextIsPrevious(n)

\* C29 (exit-event context): with sorted input files, for every exiting event the
\* encompassing feature passed as context, the previous encompassing feature, is
\* one whose padded window contains the exiting encompassed feature on the same
\* chromosome.
C29_ExitContext == SortedInputs => \A n \in ExitEvents : ExitContextEncompasses(n)

(***************************************************************************)
(* Memory management                                                       *)
(***************************************************************************)
RECURSIVE ReachableAt(_, _)
\* the dictionaries of the table of handler h at the level of stratifier i
ReachableAt(h, i) ==
    IF i = 1 THEN {h.outputDataStructure.n}
    ELSE UNION {{h.heap[d][key].n : key \in {x \in DOMAIN h.heap[d] : h.heap[d][x].t = "dict"}} :
                   d \in ReachableAt(h, i - 1)}

\* the keys, counts and supplemental accumulators of the table are as before the step
TableUnchanged ==
    /\ counter'.outputDataHandler.outputDataStructure = counter.outputDataHandler.outputDataStructure
    /\ counter'.outputDataHandler.heap = counter.outputDataHandler.heap
    /\ counter'.outputDataHandler.lists = counter.outputDataHandler.lists
    /\ \A i \in DOMAIN counter.outputDataHandler.outputDataStratifiers :
          counter'.outputDataHandler.outputDataStratifiers[i].allKeys =
              counter.outputDataHandler.outputDataStratifiers[i].allKeys

\* the list of stratifier i of handler h holds each dictionary of its level that
\* the table reaches, once, and nothing else
ListsReachable(h, i) ==
    /\ {h.outputDataStratifiers[i].outputDataDictionaries[x] :
           x \in DOMAIN h.outputDataStratifiers[i].outputDataDictionaries} = ReachableAt(h, i)
    /\ Len(h.outputDataStratifiers[i].outputDataDictionaries) = Cardinality(ReachableAt(h, i))
DescendantListsReachable(h) == \A i \in 2..nbStratifiers(h) : ListsReachable(h, i)

\* no stratifier with a supplemental information handler has a grandchild
NoListAboveDictionaries(h) ==
    \A i \in 1..(nbStratifiers(h) - 2) : h.outputDataStratifiers[i].supplementalInfoHandlers = <<>>

\* What holds of every call: the table is left as it is, and the lists of the
\* descendants are those of the reachable dictionaries unless a stratifier with a
\* supplemental information handler has a grandchild or the root has no child.
ManageMemoryFrame ==
    [][ManageMemory =>
          /\ TableUnchanged
          /\ (NoListAboveDictionaries(counter.outputDataHandler)
                /\ nbStratifiers(counter.outputDataHandler) > 1) =>
                    (~Failed(counter'.outputDataHandler)
                       /\ DescendantListsReachable(counter'.outputDataHandler))]_vars

\* C30 (memory compaction frame): a call of manageMemory on the root stratifier
\* leaves every key, count and supplemental accumulator of the table unchanged,
\* and afterwards the dictionary list of each descendant stratifier holds exactly
\* the dictionaries reachable from the root at its level: no pruned dictionary
\* and no value that is not a dictionary, such as a supplemental information list.
C30_MemoryCompactionFrame ==
    [][ManageMemory =>
          /\ TableUnchanged
          /\ DescendantListsReachable(counter'.outputDataHandler)]_vars

====
